---- MODULE Spec2Model ----
(***************************************************************************)
(* Event validation, rule upload and event-store aggregation of the       *)
(* live event validation service.                                          *)
(*                                                                         *)
(* Python strings are modelled as sequences of one-character strings, so   *)
(* that lower(), strip(), replace(), split() and the regular expressions   *)
(* of the validator are computed character by character.  JSON values are *)
(* tagged records [t, v]; JSON objects keep their key order (a sequence of *)
(* <<key, value>> pairs), as Python dicts do.                              *)
(***************************************************************************)
EXTENDS Integers, Sequences, FiniteSets, TLC

(***************************************************************************)
(* Strings                                                                 *)
(***************************************************************************)
UpperChars == <<"A","B","C","D","E","F","G","H","I","J","K","L","M",
                "N","O","P","Q","R","S","T","U","V","W","X","Y","Z">>
LowerChars == <<"a","b","c","d","e","f","g","h","i","j","k","l","m",
                "n","o","p","q","r","s","t","u","v","w","x","y","z">>
DigitChars == <<"0","1","2","3","4","5","6","7","8","9">>

\* Python's None where a string is expected (never equal to a string).
None == <<"<None>">>

IsUpper(c) == \E i \in 1..26 : UpperChars[i] = c
IsDigit(c) == \E i \in 1..10 : DigitChars[i] = c
IsSpace(c) == c = " "

lower_char(c) ==
    IF IsUpper(c) THEN LowerChars[CHOOSE i \in 1..26 : UpperChars[i] = c] ELSE c

\* str.lower()
str_lower(s) == [i \in 1..Len(s) |-> lower_char(s[i])]

\* str.strip()
str_strip(s) ==
    LET idx == {i \in 1..Len(s) : ~IsSpace(s[i])}
    IN  IF idx = {} THEN <<>>
        ELSE LET lo == CHOOSE i \in idx : \A j \in idx : i <= j
                 hi == CHOOSE i \in idx : \A j \in idx : i >= j
             IN  SubSeq(s, lo, hi)

\* str.startswith(p)
str_startswith(s, p) == Len(s) >= Len(p) /\ SubSeq(s, 1, Len(p)) = p

\* str.endswith(p)
str_endswith(s, p) ==
    Len(s) >= Len(p) /\ SubSeq(s, Len(s) - Len(p) + 1, Len(s)) = p

\* str.split('.')
RECURSIVE str_split_dot(_)
str_split_dot(s) ==
    LET dots == {i \in 1..Len(s) : s[i] = "."}
    IN  IF dots = {} THEN <<s>>
        ELSE LET d == CHOOSE i \in dots : \A j \in dots : i <= j
             IN  <<SubSeq(s, 1, d - 1)>> \o str_split_dot(SubSeq(s, d + 1, Len(s)))

\* str(n) for a natural number n
RECURSIVE int_str(_)
int_str(n) ==
    IF n < 10 THEN <<DigitChars[n + 1]>>
    ELSE int_str(n \div 10) \o <<DigitChars[(n % 10) + 1]>>

\* re.fullmatch against a pattern whose items are "d" (\d) or a literal
\* character.
full_match(s, pat) ==
    /\ Len(s) = Len(pat)
    /\ \A i \in 1..Len(s) : IF pat[i] = "d" THEN IsDigit(s[i]) ELSE s[i] = pat[i]

DatePattern == <<"d","d","d","d","-","d","d","-","d","d">>
DateTimePattern == DatePattern \o <<" ","d","d",":","d","d",":","d","d">>

RECURSIVE Flatten(_)
Flatten(ss) == IF ss = <<>> THEN <<>> ELSE Head(ss) \o Flatten(Tail(ss))

SeqToSet(s) == {s[i] : i \in 1..Len(s)}

(***************************************************************************)
(* JSON values                                                             *)
(***************************************************************************)
JNull == [t |-> "null", v |-> 0]
JBool(b) == [t |-> "bool", v |-> b]
JInt(n) == [t |-> "int", v |-> n]
\* a float is carried as Python's str() of it, e.g. <<"1",".","5">>
JFloat(r) == [t |-> "float", v |-> r]
JStr(s) == [t |-> "str", v |-> s]
JList(l) == [t |-> "list", v |-> l]
\* pairs: a sequence of <<key, value>>, keys pairwise different
JDict(pairs) == [t |-> "dict", v |-> pairs]

IsDict(x) == x.t = "dict"
IsList(x) == x.t = "list"
IsStr(x) == x.t = "str"

\* list(d.keys())
dict_keys(d) == [i \in 1..Len(d.v) |-> d.v[i][1]]
\* k in d
dict_has(d, k) == \E i \in 1..Len(d.v) : d.v[i][1] = k
\* d.get(k), None (JNull) when absent
dict_get(d, k) ==
    IF dict_has(d, k)
    THEN d.v[CHOOSE i \in 1..Len(d.v) : d.v[i][1] = k][2]
    ELSE JNull

\* bool(x): Python truthiness of a JSON value
truthy(x) ==
    CASE x.t = "null" -> FALSE
      [] x.t = "bool" -> x.v
      [] x.t = "int" -> x.v # 0
      [] x.t = "float" -> x.v \notin {<<"0",".","0">>, <<"-","0",".","0">>}
      [] x.t = "str" -> x.v # <<>>
      [] x.t = "list" -> x.v # <<>>
      [] x.t = "dict" -> x.v # <<>>

\* x == y in Python for JSON values: True == 1 and 1 == 1.0 hold.
IsNum(x) == x.t \in {"bool", "int", "float"}
num_repr(x) ==
    CASE x.t = "bool" -> (IF x.v THEN <<"1">> ELSE <<"0">>) \o <<".","0">>
      [] x.t = "int" -> int_str(x.v) \o <<".","0">>
      [] x.t = "float" -> x.v
py_eq(x, y) ==
    IF IsNum(x) /\ IsNum(y) THEN num_repr(x) = num_repr(y)
    ELSE x.t = y.t /\ x.v = y.v

(***************************************************************************)
(* EventValidator                                                          *)
(***************************************************************************)
ACCEPT_INT_AS_FLOAT == FALSE

T_text == <<"t","e","x","t">>
T_date == <<"d","a","t","e">>
T_integer == <<"i","n","t","e","g","e","r">>
T_float == <<"f","l","o","a","t">>
T_boolean == <<"b","o","o","l","e","a","n">>
T_EXTRA == <<"E","X","T","R","A">>
T_array == <<"a","r","r","a","y">>
T_object == <<"o","b","j","e","c","t">>
PROFILE_EVENT ==
    <<"u","s","e","r","_","p","r","o","f","i","l","e","_","p","u","s","h">>

get_value_type(value) ==
    CASE value.t = "null" -> "null"
      [] value.t = "bool" -> "boolean"
      [] value.t = "int" -> "integer"
      [] value.t = "float" -> "float"
      [] value.t = "str" ->
            IF full_match(value.v, DatePattern) \/ full_match(value.v, DateTimePattern)
            THEN "date" ELSE "text"
      [] value.t = "list" -> "array"
      [] value.t = "dict" -> "object"

validate_text(value) == IsStr(value) /\ str_strip(value.v) # <<>>

validate_date(value, event_name) ==
    LET date_pattern == IF event_name = PROFILE_EVENT THEN DatePattern
                        ELSE DateTimePattern
    IN  IsStr(value) /\ full_match(value.v, date_pattern)

validate_integer(value) == value.t = "int"

validate_float(value) ==
    IF ACCEPT_INT_AS_FLOAT THEN value.t \in {"float", "int"}
    ELSE value.t = "float"

validate_boolean(value) == value.t = "bool"

\* Returns "True", "False", "Null value" or the int-as-float message.
validate_value(value, expected_type, event_name) ==
    IF value.t = "null" \/ (IsStr(value) /\ value.v = <<>>) THEN "Null value"
    ELSE CASE expected_type = T_text ->
                IF validate_text(value) THEN "True" ELSE "False"
           [] expected_type = T_date ->
                IF validate_date(value, event_name) THEN "True" ELSE "False"
           [] expected_type = T_integer ->
                IF validate_integer(value) THEN "True" ELSE "False"
           [] expected_type = T_float ->
                IF validate_float(value) /\ value.t = "int" /\ ACCEPT_INT_AS_FLOAT
                THEN "Valid (JSON serialization converted float to integer)"
                ELSE IF validate_float(value) THEN "True" ELSE "False"
           [] expected_type = T_boolean ->
                IF validate_boolean(value) THEN "True" ELSE "False"
           [] OTHER -> "False"

\* A float expected as float is shown as a string with two decimals.
get_formatted_value(value, expected_type) ==
    IF expected_type = T_float /\ value.t = "float"
    THEN LET str_val == value.v
             dots == {i \in 1..Len(str_val) : str_val[i] = "."}
         IN  IF dots = {} THEN JStr(str_val \o <<".","0","0">>)
             ELSE LET parts == str_split_dot(str_val)
                  IN  IF Len(parts[2]) = 1 THEN JStr(str_val \o <<"0">>)
                      ELSE JStr(str_val)
    ELSE value

normalize_key(key) ==
    IF key = <<>> \/ key = None THEN None
    ELSE str_lower([i \in 1..Len(key) |-> IF key[i] = " " THEN "_" ELSE key[i]])

\* re.match(r"(.+)\[\]\.(.+)", key): the greedy first group takes the last
\* "[]." that still leaves a character after it.
array_split_points(key) ==
    {i \in 1..Len(key) : /\ i + 3 < Len(key)
                         /\ SubSeq(key, i + 1, i + 3) = <<"[","]",".">>}
get_array_field_name(key) ==
    LET pts == IF key = None THEN {} ELSE array_split_points(key)
    IN  IF pts = {} THEN <<None, None>>
        ELSE LET i == CHOOSE p \in pts : \A q \in pts : p >= q
             IN  <<SubSeq(key, 1, i), SubSeq(key, i + 4, Len(key))>>

\* Returns the first key of d whose normalized form equals that of target.
find_key_case_insensitive(d, target) ==
    IF ~IsDict(d) THEN None
    ELSE LET target_n == normalize_key(target)
             hits == {i \in 1..Len(d.v) : normalize_key(d.v[i][1]) = target_n}
         IN  IF hits = {} THEN None
             ELSE d.v[CHOOSE i \in hits : \A j \in hits : i <= j][1]

RECURSIVE walk_path(_, _)
walk_path(current, parts) ==
    IF parts = <<>> THEN current
    ELSE IF current.t = "null" THEN JNull
    ELSE LET part == Head(parts)
         IN  IF str_endswith(part, <<"[","]">>)
             THEN LET arr_key == SubSeq(part, 1, Len(part) - 2)
                      real_key == find_key_case_insensitive(current, arr_key)
                  IN  IF real_key = None THEN JNull
                      ELSE IF ~IsList(dict_get(current, real_key)) THEN JNull
                      ELSE dict_get(current, real_key)
             ELSE LET real_key == find_key_case_insensitive(current, part)
                  IN  IF real_key = None THEN JNull
                      ELSE walk_path(dict_get(current, real_key), Tail(parts))

get_value_by_path(payload, field_name) ==
    IF field_name = <<>> THEN JNull
    ELSE walk_path(payload, str_split_dot(field_name))


(***************************************************************************)
(* Verdicts.  The interpolated arguments of comments and of the            *)
(* conditional messages are left out: a message is named by its template.  *)
(***************************************************************************)
ST_VALID == "Valid"
ST_NOT_PRESENT == "Payload not present in the log"
ST_EMPTY == "Payload value is Empty"
ST_INVALID == "Invalid/Wrong datatype/value"
ST_EXTRA_KEY == "Extra key present in the log"
ST_EXTRA_EVENT == "Extra event (not in sheet)"
ST_EXTRA_PAYLOAD == "Payload from extra event"
ST_BAD_ROW == "Invalid CSV row"
MSG_COND_MISSING == "Required field '{then_field}' is missing when '{if_field}' is '{if_value}'"
MSG_COND_TYPE == "Field '{then_field}' has invalid type when '{if_field}' is '{if_value}'"

Verdict(ev, key, value, et, rt, st, cm) ==
    [eventName |-> ev, key |-> key, value |-> value, expectedType |-> et,
     receivedType |-> rt, validationStatus |-> st, comment |-> cm]

K_payload == <<"p","a","y","l","o","a","d">>
K_eventName == <<"e","v","e","n","t","N","a","m","e">>
K_if_field == <<"i","f","_","f","i","e","l","d">>
K_if_value == <<"i","f","_","v","a","l","u","e">>
K_then_field == <<"t","h","e","n","_","f","i","e","l","d">>
K_then_type == <<"t","h","e","n","_","t","y","p","e">>

\* The inner 'payload' object of the envelope, {} when there is none.
inner_payload_of(payload) ==
    IF IsDict(payload) /\ dict_has(payload, K_payload)
       /\ IsDict(dict_get(payload, K_payload))
    THEN dict_get(payload, K_payload)
    ELSE JDict(<<>>)

\* "ok", "missing", "badtype", or the exception the Python code raises.
AttributeErrorGet == "object has no attribute 'get'"
TypeErrorUnhashable == "unhashable type"
Unhashable(x) == x.t \in {"list", "dict"}
key_in(x, payload) == IsStr(x) /\ dict_has(payload, x.v)
validate_conditional_fields(payload, validation) ==
    LET condition == validation.condition IN
    IF ~truthy(condition) THEN "ok"
    ELSE IF ~IsDict(condition) THEN AttributeErrorGet
    ELSE LET if_field == dict_get(condition, K_if_field)
             if_value == dict_get(condition, K_if_value)
             then_field == dict_get(condition, K_then_field)
             then_type == dict_get(condition, K_then_type)
             expected == IF IsStr(then_type) THEN then_type.v ELSE None
         IN  IF Unhashable(if_field) THEN TypeErrorUnhashable
             ELSE IF key_in(if_field, payload)
                     /\ py_eq(dict_get(payload, if_field.v), if_value)
             THEN IF Unhashable(then_field) THEN TypeErrorUnhashable
                  ELSE IF ~key_in(then_field, payload) THEN "missing"
                  ELSE IF validate_value(dict_get(payload, then_field.v),
                                         expected, None) = "False"
                  THEN "badtype"
                  ELSE "ok"
             ELSE "ok"

IsException(outcome) == outcome \in {AttributeErrorGet, TypeErrorUnhashable}

normalized_keys(payload) ==
    {normalize_key(payload.v[i][1]) : i \in 1..Len(payload.v)}

validate_required_fields(payload, validations, event_name) ==
    Flatten([i \in 1..Len(validations) |->
        IF validations[i].is_required
           /\ normalize_key(validations[i].field_name) \notin normalized_keys(payload)
        THEN <<Verdict(event_name, validations[i].field_name, JNull,
                       validations[i].data_type, "not present", ST_NOT_PRESENT,
                       "Required field is missing in the payload")>>
        ELSE <<>>])

\* Strip a leading 'payload.' from every rule's field name.
process_rules(validation_rules) ==
    [i \in 1..Len(validation_rules) |->
        LET fn0 == IF validation_rules[i].field_name = None THEN <<>>
                   ELSE validation_rules[i].field_name
            pfx == K_payload \o <<".">>
            fn == IF str_startswith(fn0, pfx)
                  THEN SubSeq(fn0, Len(pfx) + 1, Len(fn0)) ELSE fn0
        IN  [validation_rules[i] EXCEPT !.field_name = fn]]

conditional_results(inner_payload, processed_rules, event_name) ==
    Flatten([i \in 1..Len(processed_rules) |->
        LET outcome == validate_conditional_fields(inner_payload, processed_rules[i])
            msg == IF outcome = "missing" THEN MSG_COND_MISSING ELSE MSG_COND_TYPE
        IN  IF outcome = "ok" THEN <<>>
            ELSE <<Verdict(event_name, processed_rules[i].field_name, JNull,
                           processed_rules[i].data_type, "invalid", msg, msg)>>])

\* The payload value stored under a normalized key: the last key wins.
normalized_get(payload, nkey) ==
    LET hits == {i \in 1..Len(payload.v) : normalize_key(payload.v[i][1]) = nkey}
    IN  IF hits = {} THEN JNull
        ELSE payload.v[CHOOSE i \in hits : \A j \in hits : i >= j][2]

expected_fields(processed_rules) ==
    {normalize_key(processed_rules[i].field_name) : i \in 1..Len(processed_rules)}

expected_array_roots(processed_rules) ==
    {normalize_key(get_array_field_name(processed_rules[i].field_name)[1]) :
        i \in {j \in 1..Len(processed_rules) :
                  get_array_field_name(processed_rules[j].field_name)[1] # None}}

\* The extra keys are held in a Python set; they are listed here in the
\* order of their first occurrence in the payload.
extra_results(inner_payload, processed_rules, event_name) ==
    Flatten([i \in 1..Len(inner_payload.v) |->
        LET k == inner_payload.v[i][1]
            f == normalize_key(k)
            first == \A j \in 1..(i - 1) : normalize_key(inner_payload.v[j][1]) # f
        IN  IF first /\ f \notin expected_fields(processed_rules)
               /\ f \notin expected_array_roots(processed_rules)
            THEN <<Verdict(event_name, k, inner_payload.v[i][2], T_EXTRA,
                           get_value_type(inner_payload.v[i][2]), ST_EXTRA_KEY,
                           "This is an EXTRA payload or there is a spelling mistake with the required payload")>>
            ELSE <<>>])

status_of(validation_result) ==
    IF validation_result = "Null value" THEN ST_EMPTY
    ELSE IF validation_result = "False" THEN ST_INVALID
    ELSE ST_VALID

comment_of(validation_result) ==
    IF validation_result = "Null value" THEN "Field value is empty or null"
    ELSE IF validation_result = "False"
    THEN "Expected type: {expected_type}, Received type: {received_type}"
    ELSE "Field validation passed"

\* One element of an array-pattern rule.
element_result(elem, idx, real_arr_key, sub_field, expected_type, event_name) ==
    LET ikey == real_arr_key \o <<"[">> \o int_str(idx) \o <<"]">> IN
    IF ~IsDict(elem)
    THEN Verdict(event_name, ikey, elem, T_object, get_value_type(elem),
                 ST_INVALID, "Array element is not an object")
    ELSE LET real_sub_key == find_key_case_insensitive(elem, sub_field) IN
         IF real_sub_key = None
         THEN Verdict(event_name, ikey \o <<".">> \o sub_field, JNull,
                      expected_type, "not present", ST_NOT_PRESENT,
                      "Field '{sub_field}' missing in array element {idx}")
         ELSE LET val == dict_get(elem, real_sub_key)
                  validation_result == validate_value(val, expected_type, event_name)
              IN  Verdict(event_name, ikey \o <<".">> \o real_sub_key,
                          get_formatted_value(val, expected_type), expected_type,
                          get_value_type(val), status_of(validation_result),
                          comment_of(validation_result))

\* The verdicts one rule adds to the results collected so far.
rule_results(validation, inner_payload, event_name, results) ==
    LET field_name == validation.field_name
        normalized_field == normalize_key(field_name)
        expected_type == validation.data_type
        arr == get_array_field_name(field_name)
        arr_name == arr[1]
        sub_field == arr[2]
    IN
    IF field_name = <<>> \/ expected_type = <<>> \/ expected_type = None
    THEN <<Verdict(event_name, field_name, JNull, expected_type, "unknown",
                   ST_BAD_ROW, "Invalid validation rule configuration")>>
    ELSE IF arr_name # None
    THEN LET real_arr_key == find_key_case_insensitive(inner_payload, arr_name) IN
         IF real_arr_key = None
         THEN <<Verdict(event_name, field_name, JNull, expected_type,
                        "not present", ST_NOT_PRESENT,
                        "Array '{arr_name}' is missing in payload")>>
         ELSE LET arr_val == dict_get(inner_payload, real_arr_key) IN
              IF ~IsList(arr_val)
              THEN <<Verdict(event_name, real_arr_key, arr_val, T_array,
                             get_value_type(arr_val), ST_INVALID,
                             "Expected array for '{real_arr_key}'")>>
              ELSE IF Len(arr_val.v) = 0
              THEN <<Verdict(event_name, real_arr_key, arr_val, T_array,
                             "array", ST_EMPTY, "Array is empty")>>
              ELSE [i \in 1..Len(arr_val.v) |->
                       element_result(arr_val.v[i], i - 1, real_arr_key,
                                      sub_field, expected_type, event_name)]
    ELSE LET top == normalized_get(inner_payload, normalized_field)
             value == IF top.t = "null"
                      THEN get_value_by_path(inner_payload, field_name)
                      ELSE top
         IN  IF value.t = "null"
             THEN LET already_reported ==
                          \E i \in 1..Len(results) :
                              /\ results[i].key = field_name
                              /\ results[i].validationStatus = ST_NOT_PRESENT
                  IN  IF ~already_reported /\ ~validation.is_required
                      THEN <<Verdict(event_name, field_name, JNull, expected_type,
                                     "not present", ST_NOT_PRESENT,
                                     "Field is missing in the payload")>>
                      ELSE <<>>
             ELSE LET validation_result ==
                          validate_value(value, expected_type, event_name)
                  IN  <<Verdict(event_name, field_name,
                                get_formatted_value(value, expected_type),
                                expected_type, get_value_type(value),
                                status_of(validation_result),
                                comment_of(validation_result))>>

RECURSIVE all_rule_results(_, _, _, _)
all_rule_results(processed_rules, inner_payload, event_name, results) ==
    IF processed_rules = <<>> THEN results
    ELSE all_rule_results(Tail(processed_rules), inner_payload, event_name,
            results \o rule_results(Head(processed_rules), inner_payload, event_name,
                                    results))

\* Variant of overall_status_of that also tolerates a missing field.
overall_status_tolerating_missing(results) ==
    IF \E i \in 1..Len(results) :
          results[i].validationStatus \notin {ST_VALID, ST_EXTRA_KEY, ST_NOT_PRESENT}
    THEN "invalid" ELSE "valid"

overall_status_of(results) ==
    IF \E i \in 1..Len(results) :
          results[i].validationStatus \notin {ST_VALID, ST_EXTRA_KEY}
    THEN "invalid" ELSE "valid"

\* Result of a validator call: it returns (status, results) or raises.
Returned(status, results) ==
    [raised |-> FALSE, status |-> status, results |-> results, error |-> ""]
Raised(msg) ==
    [raised |-> TRUE, status |-> "error", results |-> <<>>, error |-> msg]

validate_event(event_name, payload, validation_rules) ==
    LET inner_payload == inner_payload_of(payload)
        processed_rules == process_rules(validation_rules)
        raising == {i \in 1..Len(processed_rules) :
                       IsException(validate_conditional_fields(inner_payload,
                                                               processed_rules[i]))}
    IN  IF raising # {}
        THEN Raised(validate_conditional_fields(inner_payload,
                 processed_rules[CHOOSE i \in raising : \A j \in raising : i <= j]))
        ELSE LET results ==
                     all_rule_results(processed_rules, inner_payload, event_name,
                         validate_required_fields(inner_payload, processed_rules, event_name)
                         \o conditional_results(inner_payload, processed_rules, event_name)
                         \o extra_results(inner_payload, processed_rules, event_name))
             IN  Returned(overall_status_of(results), results)

\* Fallback validation of an event that has no rules.
\* Variant of validate_unknown_event that tests v == "" without strip().
validate_unknown_event_without_strip(event_name, payload) ==
    LET inner_payload == inner_payload_of(payload)
        results == [i \in 1..Len(inner_payload.v) |->
            LET k == inner_payload.v[i][1]
                v == inner_payload.v[i][2]
                empty == v.t = "null" \/ (IsStr(v) /\ v.v = <<>>)
            IN  Verdict(event_name, k, v, T_EXTRA, get_value_type(v),
                    IF empty THEN ST_EMPTY
                    ELSE IF i = 1 THEN ST_EXTRA_EVENT ELSE ST_EXTRA_PAYLOAD,
                    IF empty THEN "Field value is empty or null (extra event)"
                    ELSE IF i = 1
                    THEN "Event not present in validation sheet; showing payload from extra event"
                    ELSE "Showing payload value from extra event")]
    IN  Returned(IF \E i \in 1..Len(results) : results[i].validationStatus = ST_EMPTY
                 THEN "invalid" ELSE "valid",
                 results)

validate_unknown_event(event_name, payload) ==
    LET inner_payload == inner_payload_of(payload)
        results == [i \in 1..Len(inner_payload.v) |->
            LET k == inner_payload.v[i][1]
                v == inner_payload.v[i][2]
                empty == v.t = "null" \/ (IsStr(v) /\ str_strip(v.v) = <<>>)
            IN  Verdict(event_name, k, v, T_EXTRA, get_value_type(v),
                    IF empty THEN ST_EMPTY
                    ELSE IF i = 1 THEN ST_EXTRA_EVENT ELSE ST_EXTRA_PAYLOAD,
                    IF empty THEN "Field value is empty or null (extra event)"
                    ELSE IF i = 1
                    THEN "Event not present in validation sheet; showing payload from extra event"
                    ELSE "Showing payload value from extra event")]
    IN  Returned(IF \E i \in 1..Len(results) : results[i].validationStatus = ST_EMPTY
                 THEN "invalid" ELSE "valid",
                 results)


(***************************************************************************)
(* Rule loader (CSVParser.parse_csv_content).  A CSV document is the       *)
(* sequence of the rows csv.DictReader yields; a cell is a string.  The    *)
(* condition cell is carried as [text, json]: text is the cell's text     *)
(* class ("empty", "invalid" or "json") and json what json.loads returns  *)
(* for it.                                                                 *)
(***************************************************************************)
S_true == <<"t","r","u","e">>

parse_condition(cell) ==
    IF cell.text = "json" THEN cell.json ELSE JDict(<<>>)

\* Variant of the row loop that remembers the event name of a row only when
\* the row gives a rule.
RECURSIVE parse_rows_forgetting_discarded(_, _)
parse_rows_forgetting_discarded(rows, last_event_raw) ==
    IF rows = <<>> THEN <<>>
    ELSE LET row == Head(rows)
             raw_event == str_strip(row.eventName)
             last_event == IF raw_event # <<>> THEN raw_event ELSE last_event_raw
             field_name_raw == str_strip(row.eventPayload)
             rule == [event_name |-> str_lower(str_strip(last_event)),
                      field_name |-> field_name_raw,
                      data_type |-> str_lower(str_strip(row.dataType)),
                      is_required |-> str_lower(row.required) = S_true,
                      condition |-> parse_condition(row.condition)]
         IN  IF last_event = <<>> \/ field_name_raw = <<>>
             THEN parse_rows_forgetting_discarded(Tail(rows), last_event_raw)
             ELSE <<rule>> \o parse_rows_forgetting_discarded(Tail(rows), last_event)

RECURSIVE parse_rows(_, _)
parse_rows(rows, last_event_raw) ==
    IF rows = <<>> THEN <<>>
    ELSE LET row == Head(rows)
             raw_event == str_strip(row.eventName)
             last_event == IF raw_event # <<>> THEN raw_event ELSE last_event_raw
             event_name == str_lower(str_strip(last_event))
             field_name_raw == str_strip(row.eventPayload)
             data_type == str_lower(str_strip(row.dataType))
             required == str_lower(row.required) = S_true
             rule == [event_name |-> event_name, field_name |-> field_name_raw,
                      data_type |-> data_type, is_required |-> required,
                      condition |-> parse_condition(row.condition)]
         IN  (IF last_event = <<>> \/ field_name_raw = <<>> THEN <<>> ELSE <<rule>>)
             \o parse_rows(Tail(rows), last_event)

parse_csv_content(csv_content) == parse_rows(csv_content, <<>>)

\* parse_validation_rules of app/utils/csv_parser.py, which no module of the
\* application imports: the event name is kept as written, every rule is
\* required, and a data type outside valid_types becomes text.
valid_types == {T_text, T_date, T_integer, T_float, T_boolean}

RECURSIVE parse_validation_rows(_, _)
parse_validation_rows(rows, current_event_name) ==
    IF rows = <<>> THEN <<>>
    ELSE LET row == Head(rows)
             all_empty == /\ row.eventName = <<>> /\ row.eventPayload = <<>>
                          /\ row.dataType = <<>> /\ row.required = <<>>
                          /\ row.condition.text = "empty"
             stripped == str_strip(row.eventName)
             current == IF ~all_empty /\ stripped # <<>> THEN stripped
                        ELSE current_event_name
             data_type == str_lower(str_strip(row.dataType))
             rule == [event_name |-> current,
                      field_name |-> str_strip(row.eventPayload),
                      data_type |-> IF data_type \in valid_types THEN data_type
                                    ELSE T_text,
                      is_required |-> TRUE]
         IN  (IF all_empty \/ current = None \/ rule.field_name = <<>>
              THEN <<>> ELSE <<rule>>)
             \o parse_validation_rows(Tail(rows), current)

parse_validation_rules(csv_content) == parse_validation_rows(csv_content, None)

(***************************************************************************)
(* Content hashes.  SHA-256 is taken to be collision free: a digest is     *)
(* named by the JSON text that was hashed, and the text json.dumps writes  *)
(* with sort_keys=True by the value with the key order of objects removed. *)
(***************************************************************************)
RECURSIVE canonical(_)
canonical(x) ==
    CASE x.t = "dict" ->
            [t |-> "dict",
             v |-> {<<x.v[i][1], canonical(x.v[i][2])>> : i \in 1..Len(x.v)}]
      [] x.t = "list" ->
            [t |-> "list", v |-> [i \in 1..Len(x.v) |-> canonical(x.v[i])]]
      [] OTHER -> x

sha256(text) == <<"sha256", text>>
\* the empty string _compute_payload_hash returns for a non-dict payload
EMPTY_HASH == <<>>

dict_get_default(d, k, default) == IF dict_has(d, k) THEN dict_get(d, k) ELSE default

compute_payload_hash(payload) ==
    IF ~IsDict(payload) THEN EMPTY_HASH
    ELSE LET essential_data ==
                 JDict(<< <<K_eventName, dict_get_default(payload, K_eventName, JStr(<<>>))>>,
                          <<K_payload, dict_get_default(payload, K_payload, JDict(<<>>))>> >>)
         IN  sha256(canonical(essential_data))

\* the hash process_event_async computes: over the whole payload it is given
task_payload_hash(payload) == sha256(canonical(payload))


(***************************************************************************)
(* Bounds and inputs                                                       *)
(***************************************************************************)
MaxLogs == 2          \* log entries ever inserted
MaxUploads == 2       \* rule uploads that reach their delete
MaxTime == 1          \* clock ticks (hours)
NumUploaders == 1     \* concurrent upload requests
NumWorkers == 2       \* ingestion requests run step by step
NumConcUploaders == 2   \* upload requests in flight in UploadSpec

\* The apps table: app_id -> primary key.
AppIds == {"app1", "app2"}
UNKNOWN_APP == "ghost"
app_pk == [a \in AppIds |-> IF a = "app1" THEN 1 ELSE 2]
\* Variant of get_by_app_id that answers an unknown identifier with the first
\* application.
get_by_app_id_or_first(app_id) == IF app_id \in AppIds THEN app_pk[app_id] ELSE 1
\* AppRepository.get_by_app_id: the primary key, 0 for None
get_by_app_id(app_id) == IF app_id \in AppIds THEN app_pk[app_id] ELSE 0

N_login == <<"l","o","g","i","n">>
N_Login == <<"L","o","g","i","n">>
N_logout == <<"l","o","g","o","u","t">>
N_pay == <<"p","a","y">>
K_user_id == <<"u","s","e","r","_","i","d">>
K_User_Id == <<"U","s","e","r"," ","I","d">>
K_identity == <<"i","d","e","n","t","i","t","y">>
K_a == <<"a">>
K_note == <<"n","o","t","e">>

Envelope(name, inner, identity) ==
    JDict(<< <<K_eventName, JStr(name)>>, <<K_payload, inner>>,
             <<K_identity, JStr(identity)>> >>)

E_login_u1 == Envelope(N_login, JDict(<< <<K_user_id, JInt(42)>> >>), <<"u","1">>)
E_login_u2 == Envelope(N_login, JDict(<< <<K_user_id, JInt(42)>> >>), <<"u","2">>)
E_Login_note ==
    Envelope(N_Login, JDict(<< <<K_user_id, JInt(42)>>, <<K_note, JStr(<<" ">>)>> >>),
             <<"u","1">>)
E_logout == Envelope(N_logout, JDict(<< <<K_a, JNull>> >>), <<"u","1">>)
E_pay == Envelope(N_pay, JDict(<< <<K_a, JStr(<<>>)>> >>), <<"u","1">>)

Envelopes == {E_login_u1, E_login_u2, E_Login_note, E_logout, E_pay}

K_event_name == <<"e","v","e","n","t","_","n","a","m","e">>
K_event == <<"e","v","e","n","t">>

\* receive_log wraps an envelope as {'event_name': eventName, 'payload': envelope}
Wrap(e) == JDict(<< <<K_event_name, dict_get(e, K_eventName)>>, <<K_payload, e>> >>)
D_list == JDict(<< <<K_eventName, JStr(N_login)>>, <<K_payload, JList(<< JInt(1) >>)>> >>)
D_noname == JDict(<< <<K_payload, JDict(<<>>)>> >>)

\* The process_log calls: (app_id, log_data)
LogCalls ==
    ({"app1"} \X ({Wrap(e) : e \in Envelopes} \cup {D_list, D_noname}))
    \cup {<<"app2", Wrap(E_login_u1)>>, <<UNKNOWN_APP, Wrap(E_login_u1)>>}

\* The process_event_async calls: (app_id, event_name, payload, validation_status)
AsyncCalls ==
    {<<"app1", N_login, E_login_u1, "valid">>, <<"app1", N_login, E_login_u2, "invalid">>,
     <<"app1", N_Login, E_Login_note, "valid">>,
     <<UNKNOWN_APP, N_login, E_login_u1, "valid">>}

Row(ev, field, type, required, cond) ==
    [eventName |-> ev, eventPayload |-> field, dataType |-> type,
     required |-> required, condition |-> cond]
NoCondition == [text |-> "empty", json |-> JNull]
JsonCondition(j) == [text |-> "json", json |-> j]

\* a data type no validator knows
T_number == <<"n","u","m","b","e","r">>

CSV_login ==
    << Row(N_Login, K_user_id, <<"I","n","t","e","g","e","r">>, <<"T","r","u","e">>,
           NoCondition) >>
\* if user_id == 42 then note must be an integer
Cond_user_id_note ==
    JDict(<< <<K_if_field, JStr(K_user_id)>>, <<K_if_value, JInt(42)>>,
             <<K_then_field, JStr(K_note)>>, <<K_then_type, JStr(T_integer)>> >>)
CSV_all ==
    << Row(N_login, K_User_Id, T_text, S_true, JsonCondition(Cond_user_id_note)),
       Row(N_logout, K_a, T_integer, S_true, NoCondition),
       Row(N_pay, K_a, T_number, <<>>, JsonCondition(JInt(5))) >>
CSV_norule ==
    << Row(<<>>, K_a, T_text, S_true, NoCondition),
       Row(N_login, <<" ">>, T_text, S_true, NoCondition) >>
CSV_empty == << >>
CsvContents == {CSV_login, CSV_all, CSV_norule, CSV_empty}

\* The upload_validation_rules calls: (app_id, csv_content)
UploadCalls ==
    ({"app1"} \X CsvContents)
    \cup {<<"app2", CSV_login>>, <<UNKNOWN_APP, CSV_login>>}

(***************************************************************************)
(* State                                                                   *)
(***************************************************************************)
VARIABLES
    rules,       \* validation_rules table: set of rows
    logs,        \* log_entries table: set of rows
    nextRuleId,  \* next primary key of validation_rules
    nextLogId,   \* next primary key of log_entries
    now,         \* datetime.utcnow(), in hours
    upl,         \* per upload request: where upload_validation_rules stands
    uploads,     \* number of uploads that reached their delete
    last,        \* the call that returned last, and what it returned
    vin,         \* validator check: the arguments of validate_event
    vout,        \* validator check: what validate_event returned
    req          \* per ingestion request run step by step: where it stands

vars == <<rules, logs, nextRuleId, nextLogId, now, upl, uploads, last,
          vin, vout, req>>

Uploaders == 1..NumUploaders

NoCall ==
    [op |-> "none", app_id |-> "", outcome |-> "none",
     error |-> "", path |-> "none", id |-> 0, event_name |-> None,
     hash |-> EMPTY_HASH, uploader |-> 0]

IdleUpload == [pc |-> "idle", app_id |-> "", old |-> {}, new |-> <<>>, deleted |-> 0]

Workers == 1..NumWorkers
IdleRequest ==
    [pc |-> "idle", op |-> "none", app_id |-> "", event_name |-> None,
     payload |-> JNull, id |-> 0, status |-> "", outcome |-> "none"]

NoValidation == [event_name |-> None, payload |-> JNull, rules |-> <<>>, other |-> JNull]
NoResult ==
    [called |-> "none", result |-> Returned("valid", <<>>),
     hashes |-> <<EMPTY_HASH, EMPTY_HASH>>]

(***************************************************************************)
(* Repositories                                                            *)
(***************************************************************************)
\* Rows of a table as a sequence in primary-key order.
RECURSIVE by_id(_)
by_id(rows) ==
    IF rows = {} THEN <<>>
    ELSE LET r == CHOOSE x \in rows : \A y \in rows : x.id <= y.id
         IN  <<r>> \o by_id(rows \ {r})

\* ValidationRuleRepository.get_by_event
get_by_event(app_pk_, event_name) ==
    by_id({r \in rules : r.app_id = app_pk_ /\ r.event_name = str_lower(event_name)})

\* ValidationService.get_event_rules
get_event_rules(app_id, event_name) ==
    IF get_by_app_id(app_id) = 0 THEN <<>>
    ELSE get_by_event(get_by_app_id(app_id), event_name)

\* The rule dicts process_log hands to the validator.
rules_dict(validation_rules) ==
    [i \in 1..Len(validation_rules) |->
        [field_name |-> validation_rules[i].field_name,
         data_type |-> validation_rules[i].data_type,
         is_required |-> validation_rules[i].is_required,
         condition |-> validation_rules[i].condition]]

\* The columns of a LogEntry that also mapped the payload_hash column of
\* migrate_add_payload_hash.py.
LogEntryColumns_with_payload_hash ==
    {"id", "app_id", "event_name", "payload", "validation_status",
     "validation_results", "created_at", "payload_hash"}

\* The columns the LogEntry model maps.  The log_entries table of a migrated
\* database also has a payload_hash column (NULL by default); the model class
\* does not map it, so LogEntry.payload_hash is no attribute of the class,
\* LogEntry(payload_hash=...) is an invalid keyword argument, and a value
\* assigned to entry.payload_hash is never written to the row.
LogEntryColumns ==
    {"id", "app_id", "event_name", "payload", "validation_status",
     "validation_results", "created_at"}
NULL_HASH == <<"NULL">>
AttributeErrorColumn == "type object 'LogEntry' has no attribute 'payload_hash'"
TypeErrorKeyword == "'payload_hash' is an invalid keyword argument for LogEntry"

\* BaseRepository.create for LogEntry: one row of log_entries.
LogEntry(id, app_pk_, event_name, payload, validation_status, validation_results) ==
    [id |-> id, app_id |-> app_pk_, event_name |-> event_name, payload |-> payload,
     validation_status |-> validation_status,
     validation_results |-> validation_results, created_at |-> now,
     payload_hash |-> NULL_HASH]

\* log_entry.payload_hash = payload_hash; db.session.commit()
set_payload_hash(store, id, payload_hash) ==
    IF "payload_hash" \in LogEntryColumns
    THEN {IF r.id = id THEN [r EXCEPT !.payload_hash = payload_hash] ELSE r : r \in store}
    ELSE store

\* A prune scoped by the event name alone, as the delete of
\* process_event_async is.
delete_older_entries_of_name(store, app_pk_, event_name, payload, keep_id) ==
    [raised |-> FALSE, error |-> "",
     logs |-> {r \in store : ~(/\ r.app_id = app_pk_
                               /\ r.event_name = event_name
                               /\ r.id # keep_id)}]

\* LogRepository.delete_duplicate_older_entries: the store after the call
\* and whether the call raised.
delete_duplicate_older_entries(store, app_pk_, event_name, payload, keep_id) ==
    LET payload_hash == compute_payload_hash(payload) IN
    IF payload_hash = EMPTY_HASH THEN [raised |-> FALSE, error |-> "", logs |-> store]
    ELSE IF "payload_hash" \notin LogEntryColumns
    THEN [raised |-> TRUE, error |-> AttributeErrorColumn, logs |-> store]
    ELSE LET duplicates == {r \in store : /\ r.app_id = app_pk_
                                          /\ r.event_name = event_name
                                          /\ r.payload_hash = payload_hash
                                          /\ r.id # keep_id}
         IN  [raised |-> FALSE, error |-> "", logs |-> store \ duplicates]

\* result.get('validationStatus')
verdict_status(result) ==
    IF "validationStatus" \in DOMAIN result THEN result.validationStatus ELSE "<None>"


(***************************************************************************)
(* LogRepository.get_stats                                                 *)
(***************************************************************************)
\* Variant of classify without the else of the all_fields_valid test: a log
\* stored as valid with a verdict other than 'Valid' is counted nowhere.
classify_without_else(log) ==
    IF log.validation_status = "error" THEN "error"
    ELSE IF log.validation_status = "invalid" THEN "invalid"
    ELSE IF log.validation_status = "valid"
    THEN IF \A i \in 1..Len(log.validation_results) :
                verdict_status(log.validation_results[i]) = ST_VALID
         THEN "valid" ELSE "uncounted"
    ELSE "invalid"

\* The branch of the counting loop a latest log falls into.
classify(log) ==
    IF log.validation_status = "error" THEN "error"
    ELSE IF log.validation_status = "invalid" THEN "invalid"
    ELSE IF log.validation_status = "valid"
    THEN LET all_fields_valid ==
                 IF log.validation_results # <<>>
                 THEN \A i \in 1..Len(log.validation_results) :
                         verdict_status(log.validation_results[i]) = ST_VALID
                 ELSE TRUE
         IN  IF all_fields_valid THEN "valid" ELSE "invalid"
    ELSE "invalid"

\* Variant of latest_ids with min(id) in place of max(id).
latest_ids_oldest(app_pk_, since) ==
    LET in_window == {r \in logs : r.app_id = app_pk_ /\ r.created_at >= since}
    IN  {CHOOSE i \in {r.id : r \in {x \in in_window : x.event_name = n}} :
            \A r \in {x \in in_window : x.event_name = n} : i <= r.id :
         n \in {r.event_name : r \in in_window}}

\* The subquery: max(id) per event name of the app's logs in the window.
latest_ids(app_pk_, since) ==
    LET in_window == {r \in logs : r.app_id = app_pk_ /\ r.created_at >= since}
    IN  {CHOOSE i \in {r.id : r \in {x \in in_window : x.event_name = n}} :
            \A r \in {x \in in_window : x.event_name = n} : i >= r.id :
         n \in {r.event_name : r \in in_window}}

get_stats(app_pk_, hours) ==
    LET since == now - hours
        latest_logs == {r \in logs : r.id \in latest_ids(app_pk_, since)}
        count(c) == Cardinality({r \in latest_logs : classify(r) = c})
    IN  [total |-> Cardinality(latest_logs), valid |-> count("valid"),
         invalid |-> count("invalid"), error |-> count("error")]

\* LogService.get_validation_stats
get_validation_stats(app_id, hours) ==
    IF get_by_app_id(app_id) = 0
    THEN [total |-> 0, valid |-> 0, invalid |-> 0, error |-> 0]
    ELSE get_stats(get_by_app_id(app_id), hours)

(***************************************************************************)
(* LogRepository.get_fully_valid_events                                    *)
(***************************************************************************)
\* order_by(created_at.desc()): newest first.  The clock of the model counts
\* hours while created_at has microseconds, so records of one hour are in
\* the order of their ids, the order in which they were inserted.
RECURSIVE newest_first(_)
newest_first(rows) ==
    IF rows = {} THEN <<>>
    ELSE LET r == CHOOSE x \in rows :
                      \A y \in rows : \/ y.created_at < x.created_at
                                      \/ (y.created_at = x.created_at /\ y.id <= x.id)
         IN  <<r>> \o newest_first(rows \ {r})

\* any(result.get('validationStatus') not in [the two fallback tags])
has_validation_rules(log) ==
    \E i \in 1..Len(log.validation_results) :
        verdict_status(log.validation_results[i])
            \notin {ST_EXTRA_EVENT, ST_EXTRA_PAYLOAD}

\* The loop over the logs: latest_event_status as a sequence of
\* <<event_name, all_fields_valid>>.
RECURSIVE latest_event_status(_, _)
latest_event_status(ordered, seen) ==
    IF ordered = <<>> THEN seen
    ELSE LET log == Head(ordered)
             all_fields_valid ==
                 /\ log.validation_status = "valid"
                 /\ \A i \in 1..Len(log.validation_results) :
                       verdict_status(log.validation_results[i]) = ST_VALID
         IN  IF \E i \in 1..Len(seen) : seen[i][1] = log.event_name
             THEN latest_event_status(Tail(ordered), seen)
             ELSE IF ~(log.validation_results # <<>> /\ has_validation_rules(log))
             THEN latest_event_status(Tail(ordered), seen)
             ELSE latest_event_status(Tail(ordered),
                      Append(seen, <<log.event_name, all_fields_valid>>))

get_fully_valid_events(app_pk_, hours) ==
    LET since == now - hours
        ordered == newest_first({r \in logs : r.app_id = app_pk_ /\ r.created_at >= since})
        status == latest_event_status(ordered, <<>>)
    IN  {status[i][1] : i \in {j \in 1..Len(status) : status[j][2]}}

(***************************************************************************)
(* LogService.process_log                                                  *)
(***************************************************************************)
\* log_data.get('event_name') or log_data.get('eventName') or log_data.get('event')
extract_event_name(log_data) ==
    IF truthy(dict_get(log_data, K_event_name)) THEN dict_get(log_data, K_event_name)
    ELSE IF truthy(dict_get(log_data, K_eventName)) THEN dict_get(log_data, K_eventName)
    ELSE dict_get(log_data, K_event)

\* The except branch of process_log: a validator that raised yields the
\* status 'error' with the message as the only result.
strict_or_error(r) ==
    [path |-> IF r.raised THEN "error" ELSE "strict",
     result |-> IF r.raised THEN [r EXCEPT !.results = << [error |-> r.error] >>]
                ELSE r]

\* What process_log validates with, given the rules it read.
validation_of(event_name, payload, validation_rules) ==
    IF validation_rules = <<>>
    THEN [path |-> "fallback", result |-> validate_unknown_event(event_name, payload)]
    ELSE strict_or_error(validate_event(event_name, payload, rules_dict(validation_rules)))

\* The end of process_log: the store after the prune, and what the call
\* reports.
process_log_return(app_id, event_name, path, id, payload_hash, pruned) ==
    /\ nextLogId <= MaxLogs
    /\ logs' = pruned.logs
    /\ nextLogId' = nextLogId + 1
    /\ last' = [NoCall EXCEPT
                   !.op = "process_log", !.app_id = app_id,
                   !.outcome = IF pruned.raised THEN "exception" ELSE "success",
                   !.error = pruned.error, !.path = path,
                   !.id = id, !.event_name = event_name,
                   !.hash = payload_hash]
    /\ UNCHANGED <<rules, nextRuleId, now, upl, uploads, vin, vout, req>>

\* log_repo.create, the payload_hash assignment with its commit, and
\* delete_duplicate_older_entries.
process_log_store(app_id, app, event_name, payload, path, log_entry) ==
    process_log_return(app_id, event_name, path, log_entry.id,
        compute_payload_hash(payload),
        delete_duplicate_older_entries(
            set_payload_hash(logs \cup {log_entry}, log_entry.id,
                             compute_payload_hash(payload)),
            app, event_name, payload, log_entry.id))

\* The validation of process_log and the entry it creates from the outcome.
process_log_validate(app_id, app, event_name, payload, val) ==
    process_log_store(app_id, app, event_name, payload, val.path,
        LogEntry(nextLogId, app, event_name, payload,
                 val.result.status, val.result.results))

ProcessLog(app_id, log_data) ==
    IF get_by_app_id(app_id) = 0
    THEN /\ last' = [NoCall EXCEPT !.op = "process_log", !.app_id = app_id,
                                   !.outcome = "failure", !.error = "App not found"]
         /\ UNCHANGED <<rules, logs, nextRuleId, nextLogId, now, upl, uploads, vin, vout, req>>
    ELSE IF ~truthy(extract_event_name(log_data))
    THEN /\ last' = [NoCall EXCEPT !.op = "process_log", !.app_id = app_id,
                                   !.outcome = "failure",
                                   !.error = "Missing event_name in log data"]
         /\ UNCHANGED <<rules, logs, nextRuleId, nextLogId, now, upl, uploads, vin, vout, req>>
    ELSE process_log_validate(app_id, get_by_app_id(app_id),
             str_lower(extract_event_name(log_data).v),
             dict_get_default(log_data, K_payload, JDict(<<>>)),
             validation_of(str_lower(extract_event_name(log_data).v),
                           dict_get_default(log_data, K_payload, JDict(<<>>)),
                           get_event_rules(app_id,
                               str_lower(extract_event_name(log_data).v))))

(***************************************************************************)
(* tasks.process_event_async                                               *)
(***************************************************************************)
ProcessEventAsync(app_id, event_name, payload, validation_status) ==
    LET app == get_by_app_id(app_id)
        Call == [NoCall EXCEPT !.op = "process_event_async", !.app_id = app_id]
        payload_hash == task_payload_hash(payload)
        log_entry == [LogEntry(nextLogId, app, event_name, payload,
                               validation_status, <<>>)
                        EXCEPT !.payload_hash = payload_hash]
    IN
    IF app = 0
    THEN /\ last' = [Call EXCEPT !.outcome = "failure", !.error = "App not found"]
         /\ UNCHANGED <<rules, logs, nextRuleId, nextLogId, now, upl, uploads, vin, vout, req>>
    ELSE IF "payload_hash" \notin LogEntryColumns
    THEN \* the constructor raises; the handler rolls back and reports the error
         /\ last' = [Call EXCEPT !.outcome = "failure", !.error = TypeErrorKeyword,
                                 !.event_name = event_name, !.hash = payload_hash]
         /\ UNCHANGED <<rules, logs, nextRuleId, nextLogId, now, upl, uploads, vin, vout, req>>
    ELSE /\ nextLogId <= MaxLogs
         /\ logs' = {log_entry} \cup
                    {r \in logs : ~(r.app_id = app /\ r.event_name = event_name)}
         /\ nextLogId' = nextLogId + 1
         /\ last' = [Call EXCEPT !.outcome = "success", !.id = log_entry.id,
                                 !.event_name = event_name, !.hash = payload_hash]
         /\ UNCHANGED <<rules, nextRuleId, now, upl, uploads, vin, vout, req>>

(***************************************************************************)
(* ValidationService.upload_validation_rules, in its two commits           *)
(***************************************************************************)
NO_RULES == "No valid rules found in CSV"

\* ValidationRuleRepository.delete_by_app
delete_by_app(table, app_pk_) == {r \in table : r.app_id # app_pk_}

\* ValidationRuleRepository.bulk_create
bulk_create(table, first_id, app_pk_, parsed) ==
    table \cup {[id |-> first_id + i - 1, app_id |-> app_pk_,
                 event_name |-> parsed[i].event_name,
                 field_name |-> parsed[i].field_name,
                 data_type |-> parsed[i].data_type,
                 is_required |-> parsed[i].is_required,
                 condition |-> parsed[i].condition] : i \in 1..Len(parsed)}

\* Variant of UploadDelete that deletes the app's rules before it looks at
\* what the parser returned.
UploadDelete_delete_first(u, app_id, csv_content) ==
    LET app == get_by_app_id(app_id)
        parsed == parse_csv_content(csv_content)
        Call == [NoCall EXCEPT !.op = "upload", !.app_id = app_id, !.uploader = u]
    IN
    /\ upl[u].pc = "idle"
    /\ IF app = 0
       THEN /\ last' = [Call EXCEPT !.outcome = "failure", !.error = "App not found"]
            /\ UNCHANGED <<rules, upl, uploads>>
       ELSE IF parsed = <<>>
       THEN /\ last' = [Call EXCEPT !.outcome = "failure", !.error = NO_RULES]
            /\ rules' = delete_by_app(rules, app)
            /\ UNCHANGED <<upl, uploads>>
       ELSE /\ uploads < MaxUploads
            /\ rules' = delete_by_app(rules, app)
            /\ upl' = [upl EXCEPT ![u] =
                          [pc |-> "insert", app_id |-> app_id,
                           old |-> rules \ delete_by_app(rules, app),
                           new |-> parsed,
                           deleted |-> Cardinality(rules \ delete_by_app(rules, app))]]
            /\ uploads' = uploads + 1
            /\ UNCHANGED last
    /\ UNCHANGED <<logs, nextRuleId, nextLogId, now, vin, vout, req>>

\* Up to the commit of delete_by_app.
UploadDelete(u, app_id, csv_content) ==
    LET app == get_by_app_id(app_id)
        parsed == parse_csv_content(csv_content)
        Call == [NoCall EXCEPT !.op = "upload", !.app_id = app_id, !.uploader = u]
    IN
    /\ upl[u].pc = "idle"
    /\ IF app = 0
       THEN /\ last' = [Call EXCEPT !.outcome = "failure", !.error = "App not found"]
            /\ UNCHANGED <<rules, upl, uploads>>
       ELSE IF parsed = <<>>
       THEN /\ last' = [Call EXCEPT !.outcome = "failure", !.error = NO_RULES]
            /\ UNCHANGED <<rules, upl, uploads>>
       ELSE /\ uploads < MaxUploads
            /\ rules' = delete_by_app(rules, app)
            /\ upl' = [upl EXCEPT ![u] =
                          [pc |-> "insert", app_id |-> app_id,
                           old |-> rules \ delete_by_app(rules, app),
                           new |-> parsed,
                           deleted |-> Cardinality(rules \ delete_by_app(rules, app))]]
            /\ uploads' = uploads + 1
            /\ UNCHANGED last
    /\ UNCHANGED <<logs, nextRuleId, nextLogId, now, vin, vout, req>>

\* bulk_create and the return.
UploadInsert(u) ==
    /\ upl[u].pc = "insert"
    /\ rules' = bulk_create(rules, nextRuleId, get_by_app_id(upl[u].app_id), upl[u].new)
    /\ nextRuleId' = nextRuleId + Len(upl[u].new)
    /\ upl' = [upl EXCEPT ![u] = IdleUpload]
    /\ last' = [NoCall EXCEPT !.op = "upload", !.app_id = upl[u].app_id,
                              !.uploader = u, !.outcome = "success"]
    /\ UNCHANGED <<logs, nextLogId, now, uploads, vin, vout, req>>

\* The clock advances.
Tick ==
    /\ now < MaxTime
    /\ now' = now + 1
    /\ UNCHANGED <<rules, logs, nextRuleId, nextLogId, upl, uploads, last, vin, vout, req>>

Init ==
    /\ rules = {}
    /\ logs = {}
    /\ nextRuleId = 1
    /\ nextLogId = 1
    /\ now = 0
    /\ upl = [u \in Uploaders |-> IdleUpload]
    /\ uploads = 0
    /\ last = NoCall
    /\ vin = NoValidation
    /\ vout = NoResult
    /\ req = [w \in Workers |-> IdleRequest]

Next ==
    \/ \E c \in LogCalls : ProcessLog(c[1], c[2])
    \/ \E u \in Uploaders, c \in UploadCalls : UploadDelete(u, c[1], c[2])
    \/ \E u \in Uploaders : UploadInsert(u)

Spec == Init /\ [][Next]_vars

\* Ingestion over time, for the aggregation queries.
StatsLogCalls ==
    ({"app1"} \X {Wrap(E_login_u1), Wrap(E_Login_note), Wrap(E_pay), D_list})
    \cup {<<"app2", Wrap(E_login_u1)>>}
StatsUploadCalls == {"app1"} \X {CSV_login, CSV_all}

StatsNext ==
    \/ \E c \in StatsLogCalls : ProcessLog(c[1], c[2])
    \/ \E u \in Uploaders, c \in StatsUploadCalls : UploadDelete(u, c[1], c[2])
    \/ \E u \in Uploaders : UploadInsert(u)
    \/ Tick

StatsSpec == Init /\ [][StatsNext]_vars


(***************************************************************************)
(* Coverage (get_coverage of the dashboard)                                *)
(***************************************************************************)
\* ValidationRuleRepository.get_event_names
get_event_names(app_pk_) == {r.event_name : r \in {x \in rules : x.app_id = app_pk_}}

\* LogRepository.get_distinct_event_names
get_distinct_event_names(app_pk_) ==
    {r.event_name : r \in {x \in logs : /\ x.app_id = app_pk_
                                         /\ x.event_name # None
                                         /\ x.event_name # <<>>}}

\* Variant of get_coverage that counts every captured event name as captured.
get_coverage_counting_all_captured(app_id) ==
    IF get_by_app_id(app_id) = 0 THEN [error |-> "App not found"]
    ELSE LET sheet_event_names_set == get_event_names(get_by_app_id(app_id))
             captured_event_names_set == get_distinct_event_names(get_by_app_id(app_id))
         IN  [captured |-> Cardinality(captured_event_names_set),
              missing |-> Cardinality(sheet_event_names_set \ captured_event_names_set),
              total |-> Cardinality(sheet_event_names_set),
              missing_events |-> sheet_event_names_set \ captured_event_names_set]

\* get_coverage, for a user who owns the application.
get_coverage(app_id) ==
    IF get_by_app_id(app_id) = 0 THEN [error |-> "App not found"]
    ELSE LET sheet_event_names_set == get_event_names(get_by_app_id(app_id))
             captured_event_names_set == get_distinct_event_names(get_by_app_id(app_id))
         IN  [captured |-> Cardinality(sheet_event_names_set \cap captured_event_names_set),
              missing |-> Cardinality(sheet_event_names_set \ captured_event_names_set),
              total |-> Cardinality(sheet_event_names_set),
              missing_events |-> sheet_event_names_set \ captured_event_names_set]

(***************************************************************************)
(* Ingestion requests run step by step, one request per worker: the        *)
(* commits of process_log (create; payload_hash; the prune) and of         *)
(* process_event_async (add; the delete by name) are separate steps that   *)
(* interleave with those of the other worker.                              *)
(***************************************************************************)
\* log_repo.create of process_log has committed.
log_insert_created(w, app_id, event_name, payload, val) ==
    /\ nextLogId <= MaxLogs
    /\ logs' = logs \cup {LogEntry(nextLogId, get_by_app_id(app_id), event_name, payload,
                                   val.result.status, val.result.results)}
    /\ nextLogId' = nextLogId + 1
    /\ req' = [req EXCEPT ![w] =
                  [pc |-> "hash", op |-> "process_log", app_id |-> app_id,
                   event_name |-> event_name, payload |-> payload, id |-> nextLogId,
                   status |-> val.path, outcome |-> "none"]]
    /\ UNCHANGED <<rules, nextRuleId, now, upl, uploads, last, vin, vout>>

\* process_log up to the commit of log_repo.create.
LogInsert(w, app_id, log_data) ==
    /\ req[w].pc = "idle"
    /\ IF get_by_app_id(app_id) = 0
       THEN /\ last' = [NoCall EXCEPT !.op = "process_log", !.app_id = app_id,
                                      !.outcome = "failure", !.error = "App not found"]
            /\ req' = [req EXCEPT ![w] = [IdleRequest EXCEPT !.pc = "done",
                                             !.op = "process_log", !.app_id = app_id,
                                             !.outcome = "failure"]]
            /\ UNCHANGED <<rules, logs, nextRuleId, nextLogId, now, upl, uploads, vin, vout>>
       ELSE IF ~truthy(extract_event_name(log_data))
       THEN /\ last' = [NoCall EXCEPT !.op = "process_log", !.app_id = app_id,
                                      !.outcome = "failure",
                                      !.error = "Missing event_name in log data"]
            /\ req' = [req EXCEPT ![w] = [IdleRequest EXCEPT !.pc = "done",
                                             !.op = "process_log", !.app_id = app_id,
                                             !.outcome = "failure"]]
            /\ UNCHANGED <<rules, logs, nextRuleId, nextLogId, now, upl, uploads, vin, vout>>
       ELSE log_insert_created(w, app_id,
                str_lower(extract_event_name(log_data).v),
                dict_get_default(log_data, K_payload, JDict(<<>>)),
                validation_of(str_lower(extract_event_name(log_data).v),
                              dict_get_default(log_data, K_payload, JDict(<<>>)),
                              get_event_rules(app_id,
                                  str_lower(extract_event_name(log_data).v))))

\* log_entry.payload_hash = payload_hash; db.session.commit()
LogSetHash(w) ==
    /\ req[w].pc = "hash"
    /\ logs' = set_payload_hash(logs, req[w].id, compute_payload_hash(req[w].payload))
    /\ req' = [req EXCEPT ![w].pc = "prune"]
    /\ UNCHANGED <<rules, nextRuleId, nextLogId, now, upl, uploads, last, vin, vout>>

\* The end of the request, given what delete_duplicate_older_entries did.
log_prune_return(w, pruned) ==
    /\ logs' = pruned.logs
    /\ req' = [req EXCEPT ![w].pc = "done",
                          ![w].outcome = IF pruned.raised THEN "exception" ELSE "success"]
    /\ last' = [NoCall EXCEPT
                   !.op = "process_log", !.app_id = req[w].app_id,
                   !.outcome = IF pruned.raised THEN "exception" ELSE "success",
                   !.error = pruned.error, !.path = req[w].status,
                   !.id = req[w].id, !.event_name = req[w].event_name,
                   !.hash = compute_payload_hash(req[w].payload)]
    /\ UNCHANGED <<rules, nextRuleId, nextLogId, now, upl, uploads, vin, vout>>

\* delete_duplicate_older_entries and the return of process_log.
LogPrune(w) ==
    /\ req[w].pc = "prune"
    /\ log_prune_return(w,
           delete_duplicate_older_entries(logs, get_by_app_id(req[w].app_id),
               req[w].event_name, req[w].payload, req[w].id))

\* process_event_async up to the lookup of the App record.
AsyncStart(w, app_id, event_name, payload, validation_status) ==
    /\ req[w].pc = "idle"
    /\ IF get_by_app_id(app_id) = 0
       THEN /\ last' = [NoCall EXCEPT !.op = "process_event_async", !.app_id = app_id,
                                      !.outcome = "failure", !.error = "App not found"]
            /\ req' = [req EXCEPT ![w] = [IdleRequest EXCEPT !.pc = "done",
                                             !.op = "process_event_async",
                                             !.app_id = app_id, !.outcome = "failure"]]
       ELSE /\ req' = [req EXCEPT ![w] =
                          [pc |-> "async_insert", op |-> "process_event_async",
                           app_id |-> app_id, event_name |-> event_name,
                           payload |-> payload, id |-> 0,
                           status |-> validation_status, outcome |-> "none"]]
            /\ UNCHANGED last
    /\ UNCHANGED <<rules, logs, nextRuleId, nextLogId, now, upl, uploads, vin, vout>>

\* The next commit of process_event_async: the new entry, then the delete of
\* every other entry of the application with the event name.
AsyncStep(w) ==
    /\ req[w].pc \in {"async_insert", "async_delete"}
    /\ IF req[w].pc = "async_insert"
       THEN IF "payload_hash" \notin LogEntryColumns
            THEN \* LogEntry(payload_hash=...) raises: rollback, error returned
                 /\ req' = [req EXCEPT ![w].pc = "done", ![w].outcome = "failure"]
                 /\ last' = [NoCall EXCEPT !.op = "process_event_async",
                                !.app_id = req[w].app_id, !.outcome = "failure",
                                !.error = TypeErrorKeyword,
                                !.event_name = req[w].event_name,
                                !.hash = task_payload_hash(req[w].payload)]
                 /\ UNCHANGED <<logs, nextLogId>>
            ELSE /\ nextLogId <= MaxLogs
                 /\ logs' = logs \cup
                       {[LogEntry(nextLogId, get_by_app_id(req[w].app_id),
                                  req[w].event_name, req[w].payload, req[w].status, <<>>)
                           EXCEPT !.payload_hash = task_payload_hash(req[w].payload)]}
                 /\ nextLogId' = nextLogId + 1
                 /\ req' = [req EXCEPT ![w].pc = "async_delete", ![w].id = nextLogId]
                 /\ UNCHANGED last
       ELSE /\ logs' = {r \in logs : ~(/\ r.app_id = get_by_app_id(req[w].app_id)
                                       /\ r.event_name = req[w].event_name
                                       /\ r.id # req[w].id)}
            /\ req' = [req EXCEPT ![w].pc = "done", ![w].outcome = "success"]
            /\ last' = [NoCall EXCEPT !.op = "process_event_async",
                           !.app_id = req[w].app_id, !.outcome = "success",
                           !.id = req[w].id, !.event_name = req[w].event_name,
                           !.hash = task_payload_hash(req[w].payload)]
            /\ UNCHANGED nextLogId
    /\ UNCHANGED <<rules, nextRuleId, now, upl, uploads, vin, vout>>

\* Two envelopes of one content hash, two more payloads of the same event
\* name, another event name and another application.
ConcLogCalls ==
    ({"app1"} \X {Wrap(E_login_u1), Wrap(E_login_u2), Wrap(E_Login_note),
                  Wrap(E_logout), D_list})
    \cup {<<"app2", Wrap(E_login_u1)>>}

ConcNext ==
    \/ \E w \in Workers, c \in ConcLogCalls : LogInsert(w, c[1], c[2])
    \/ \E w \in Workers : LogSetHash(w)
    \/ \E w \in Workers : LogPrune(w)
    \/ \E w \in Workers, c \in AsyncCalls : AsyncStart(w, c[1], c[2], c[3], c[4])
    \/ \E w \in Workers : AsyncStep(w)

ConcSpec == Init /\ [][ConcNext]_vars

(***************************************************************************)
(* Rule uploads of several requests at a time.  The commit of bulk_create  *)
(* can fail (the database refuses a value longer than its column, or the   *)
(* connection is lost); the except branch of upload_validation_rules then  *)
(* returns success False.                                                  *)
(***************************************************************************)
ConcUploaders == 1..NumConcUploaders
DatabaseError == "database error"

\* bulk_create raises: nothing is inserted, the delete stays committed.
UploadInsertFails(u) ==
    /\ upl[u].pc = "insert"
    /\ upl' = [upl EXCEPT ![u] = IdleUpload]
    /\ last' = [NoCall EXCEPT !.op = "upload", !.app_id = upl[u].app_id,
                              !.uploader = u, !.outcome = "failure",
                              !.error = DatabaseError]
    /\ UNCHANGED <<rules, logs, nextRuleId, nextLogId, now, uploads, vin, vout, req>>

UploadInit ==
    /\ rules = {}
    /\ logs = {}
    /\ nextRuleId = 1
    /\ nextLogId = 1
    /\ now = 0
    /\ upl = [u \in ConcUploaders |-> IdleUpload]
    /\ uploads = 0
    /\ last = NoCall
    /\ vin = NoValidation
    /\ vout = NoResult
    /\ req = [w \in Workers |-> IdleRequest]

UploadNext ==
    \/ \E u \in ConcUploaders, c \in UploadCalls : UploadDelete(u, c[1], c[2])
    \/ \E u \in ConcUploaders : UploadInsert(u)
    \/ \E u \in ConcUploaders : UploadInsertFails(u)

UploadSpec == UploadInit /\ [][UploadNext]_vars

(***************************************************************************)
(* The rule editor of the dashboard: one rule is created or updated by a    *)
(* request of its own, next to the uploads.  The request body is a JSON     *)
(* object, a function from its keys to their values here; the current user  *)
(* owns the applications.                                                   *)
(***************************************************************************)
MaxRuleId == 3        \* primary keys the rule editor hands out

RuleFields == {"event_name", "field_name", "data_type", "is_required", "condition"}
RequiredRuleFields == {"event_name", "field_name", "data_type"}

\* data.get(key, default) of the request body
body_get(data, key, default) == IF key \in DOMAIN data THEN data[key] ELSE default

\* create_validation_rule: 404 for an unknown application, 400 when a
\* required field is absent or empty, else one rule is inserted with the
\* event name in lower case and the other values as sent.
CreateValidationRule(app_id, data) ==
    LET app == get_by_app_id(app_id)
        Call == [NoCall EXCEPT !.op = "create_validation_rule", !.app_id = app_id]
    IN
    /\ IF app = 0
       THEN /\ last' = [Call EXCEPT !.outcome = "failure", !.error = "App not found"]
            /\ UNCHANGED <<rules, nextRuleId>>
       ELSE IF \E f \in RequiredRuleFields : f \notin DOMAIN data \/ data[f] = <<>>
       THEN /\ last' = [Call EXCEPT !.outcome = "failure",
                                    !.error = "Missing required field"]
            /\ UNCHANGED <<rules, nextRuleId>>
       ELSE /\ nextRuleId <= MaxRuleId
            /\ rules' = rules \cup
                  {[id |-> nextRuleId, app_id |-> app,
                    event_name |-> str_lower(data["event_name"]),
                    field_name |-> data["field_name"],
                    data_type |-> data["data_type"],
                    is_required |-> body_get(data, "is_required", FALSE),
                    condition |-> body_get(data, "condition", JNull)]}
            /\ nextRuleId' = nextRuleId + 1
            /\ last' = [Call EXCEPT !.outcome = "success", !.id = nextRuleId]
    /\ UNCHANGED <<logs, nextLogId, now, upl, uploads, vin, vout, req>>

\* update_validation_rule with ValidationRuleRepository.update_rule: 404 for
\* an unknown application or a rule that is not the application's, 400 when
\* the body names no field of a rule, else the named fields are overwritten,
\* the event name in lower case.
UpdateValidationRule(app_id, rule_id, data) ==
    LET app == get_by_app_id(app_id)
        found == {r \in rules : r.id = rule_id}
        update_data == [f \in DOMAIN data \cap RuleFields |->
                           IF f = "event_name" THEN str_lower(data[f]) ELSE data[f]]
        Call == [NoCall EXCEPT !.op = "update_validation_rule", !.app_id = app_id,
                               !.id = rule_id]
    IN
    /\ IF app = 0
       THEN /\ last' = [Call EXCEPT !.outcome = "failure", !.error = "App not found"]
            /\ UNCHANGED rules
       ELSE IF \A r \in found : r.app_id # app
       THEN /\ last' = [Call EXCEPT !.outcome = "failure", !.error = "Rule not found"]
            /\ UNCHANGED rules
       ELSE IF DOMAIN update_data = {}
       THEN /\ last' = [Call EXCEPT !.outcome = "failure", !.error = "No fields to update"]
            /\ UNCHANGED rules
       ELSE /\ rules' = {IF r.id = rule_id
                          THEN [k \in DOMAIN r |->
                                   IF k \in DOMAIN update_data THEN update_data[k] ELSE r[k]]
                          ELSE r : r \in rules}
            /\ last' = [Call EXCEPT !.outcome = "success"]
    /\ UNCHANGED <<logs, nextRuleId, nextLogId, now, upl, uploads, vin, vout, req>>

\* A file whose two rows name one field of one event in two spellings.
CSV_twice ==
    << Row(N_login, K_user_id, T_integer, S_true, NoCondition),
       Row(<<>>, K_User_Id, T_text, S_true, NoCondition) >>
EditorUploadCalls == {"app1"} \X {CSV_login, CSV_twice}
CreateCalls ==
    {<<"app1", [event_name |-> N_Login, field_name |-> K_User_Id, data_type |-> T_text]>>,
     <<"app1", [event_name |-> N_login, field_name |-> K_a, data_type |-> T_integer,
                is_required |-> TRUE]>>,
     <<"app1", [event_name |-> N_login, field_name |-> <<>>, data_type |-> T_text]>>,
     <<"app2", [event_name |-> N_login, field_name |-> K_user_id, data_type |-> T_text]>>,
     <<UNKNOWN_APP, [event_name |-> N_login, field_name |-> K_a, data_type |-> T_text]>>}
UpdateCalls ==
    ({"app1", UNKNOWN_APP} \X (1..MaxRuleId))
    \X {[field_name |-> K_user_id], [event_name |-> N_Login, data_type |-> T_text],
        [rule_id |-> 1]}

EditorNext ==
    \/ \E u \in Uploaders, c \in EditorUploadCalls : UploadDelete(u, c[1], c[2])
    \/ \E u \in Uploaders : UploadInsert(u)
    \/ \E c \in CreateCalls : CreateValidationRule(c[1], c[2])
    \/ \E c \in UpdateCalls : UpdateValidationRule(c[1][1], c[1][2], c[2])

EditorSpec == Init /\ [][EditorNext]_vars

(***************************************************************************)
(* The validator and the two hash computations as functions of their       *)
(* arguments: the arguments are drawn by the initial state.                *)
(***************************************************************************)
MaxRules == 2         \* rules in a rule list handed to validate_event

K_items == <<"i","t","e","m","s">>
K_Items == <<"I","t","e","m","s">>
K_price == <<"p","r","i","c","e">>
K_b == <<"b">>
F_items_price == K_items \o <<"[","]",".">> \o K_price
F_payload_user_id == K_payload \o <<".">> \o K_user_id
F_a_b == K_a \o <<".">> \o K_b
N_e == <<"e">>

FieldRule(field, type, required, cond) ==
    [field_name |-> field, data_type |-> type, is_required |-> required,
     condition |-> cond]

\* if a == 1 then b must be an integer
Cond_a_b ==
    JDict(<< <<K_if_field, JStr(K_a)>>, <<K_if_value, JInt(1)>>,
             <<K_then_field, JStr(K_b)>>, <<K_then_type, JStr(T_integer)>> >>)

FieldRules ==
    { FieldRule(K_user_id, T_integer, TRUE, JDict(<<>>)),
      FieldRule(K_User_Id, T_integer, FALSE, JNull),
      FieldRule(F_payload_user_id, T_text, TRUE, JDict(<<>>)),
      FieldRule(F_items_price, T_float, TRUE, JDict(<<>>)),
      FieldRule(F_items_price, T_float, FALSE, JDict(<<>>)),
      FieldRule(F_a_b, T_integer, TRUE, JDict(<<>>)),
      FieldRule(F_a_b, T_integer, FALSE, JDict(<<>>)),
      FieldRule(K_a, T_integer, TRUE, Cond_a_b),
      FieldRule(K_b, T_boolean, FALSE, JDict(<<>>)) }

RECURSIVE SeqsUpTo(_, _)
SeqsUpTo(S, n) ==
    IF n = 0 THEN {<<>>}
    ELSE LET shorter == SeqsUpTo(S, n - 1)
         IN  shorter \cup {Append(q, x) : q \in shorter, x \in S}

RuleLists == SeqsUpTo(FieldRules, MaxRules) \ {<<>>}

InnerPayloads ==
    { JDict(<<>>),
      JDict(<< <<K_user_id, JInt(42)>> >>),
      JDict(<< <<K_User_Id, JStr(<<"x">>)>>, <<K_note, JBool(TRUE)>> >>),
      JDict(<< <<K_items, JList(<< JDict(<< <<K_price, JFloat(<<"1",".","5">>)>> >>),
                                   JDict(<< <<K_price, JStr(<<"x">>)>> >>) >>)>> >>),
      JDict(<< <<K_Items, JList(<< JDict(<< <<K_price, JFloat(<<"2",".","2","5">>)>> >>) >>)>>,
               <<K_user_id, JInt(7)>> >>),
      JDict(<< <<K_items, JList(<<>>)>> >>),
      JDict(<< <<K_items, JInt(3)>>, <<K_a, JInt(1)>> >>),
      JDict(<< <<K_a, JDict(<< <<K_b, JInt(1)>> >>)>> >>),
      JDict(<< <<K_a, JInt(1)>>, <<K_b, JNull>> >>),
      JDict(<< <<K_a, JBool(TRUE)>>, <<K_b, JStr(<<"x">>)>> >>),
      JDict(<< <<K_a, JNull>>, <<K_b, JStr(<<" ">>)>> >>),
      JDict(<< <<K_a, JInt(1)>>, <<K_b, JStr(<<>>)>> >>),
      JDict(<< <<K_user_id, JInt(42)>>, <<K_User_Id, JStr(<<"x">>)>> >>) }

ValidatorInputs ==
    {[event_name |-> N_e, payload |-> Envelope(N_e, p, <<"u","1">>), rules |-> rl,
      other |-> JNull] : p \in InnerPayloads, rl \in RuleLists}

ValidatorInit ==
    /\ rules = {}
    /\ logs = {}
    /\ nextRuleId = 1
    /\ nextLogId = 1
    /\ now = 0
    /\ upl = [u \in Uploaders |-> IdleUpload]
    /\ uploads = 0
    /\ last = NoCall
    /\ vin \in ValidatorInputs
    /\ vout = NoResult
    /\ req = [w \in Workers |-> IdleRequest]

\* validate_event is called on the drawn arguments.
Validate ==
    /\ vout.called = "none"
    /\ vout' = [vout EXCEPT !.called = "validate_event",
                            !.result = validate_event(vin.event_name, vin.payload, vin.rules)]
    /\ UNCHANGED <<rules, logs, nextRuleId, nextLogId, now, upl, uploads, last, vin, req>>

ValidatorSpec == ValidatorInit /\ [][Validate]_vars

\* Envelopes that share or differ in name, inner payload and metadata.
E_bare == JDict(<< <<K_eventName, JStr(N_login)>>,
                   <<K_payload, JDict(<< <<K_user_id, JInt(42)>> >>)>> >>)
E_reordered ==
    JDict(<< <<K_identity, JStr(<<"u","1">>)>>,
             <<K_payload, JDict(<< <<K_user_id, JInt(42)>> >>)>>,
             <<K_eventName, JStr(N_login)>> >>)
HashedPayloads ==
    Envelopes \cup {E_bare, E_reordered, JList(<< JInt(1) >>),
                    Envelope(N_login, JDict(<< <<K_user_id, JFloat(<<"4","2",".","0">>)>> >>),
                             <<"u","1">>)}

HashInit ==
    /\ rules = {}
    /\ logs = {}
    /\ nextRuleId = 1
    /\ nextLogId = 1
    /\ now = 0
    /\ upl = [u \in Uploaders |-> IdleUpload]
    /\ uploads = 0
    /\ last = NoCall
    /\ vin \in {[NoValidation EXCEPT !.payload = p, !.other = q] :
                   p \in HashedPayloads, q \in HashedPayloads}
    /\ vout = NoResult
    /\ req = [w \in Workers |-> IdleRequest]

\* The hash process_log computes for each of the two payloads.
HashProcessLog ==
    /\ vout.called = "none"
    /\ vout' = [vout EXCEPT !.called = "process_log",
                            !.hashes = <<compute_payload_hash(vin.payload),
                                         compute_payload_hash(vin.other)>>]
    /\ UNCHANGED <<rules, logs, nextRuleId, nextLogId, now, upl, uploads, last, vin, req>>

\* The hash process_event_async computes for each of the two payloads.
HashProcessEventAsync ==
    /\ vout.called = "none"
    /\ vout' = [vout EXCEPT !.called = "process_event_async",
                            !.hashes = <<task_payload_hash(vin.payload),
                                         task_payload_hash(vin.other)>>]
    /\ UNCHANGED <<rules, logs, nextRuleId, nextLogId, now, upl, uploads, last, vin, req>>

HashSpec == HashInit /\ [][HashProcessLog \/ HashProcessEventAsync]_vars

(***************************************************************************)
(* The two rule loaders as functions: Init draws a document of at most     *)
(* MaxRows rows, and each action applies one loader to it.                 *)
(***************************************************************************)
MaxRows == 3

LoaderRows ==
    { Row(N_Login, K_user_id, <<"I","n","t","e","g","e","r">>, <<"T","r","u","e">>,
          NoCondition),
      Row(<<>>, K_a, T_text, S_true, NoCondition),
      Row(N_logout, <<" ">>, T_text, S_true, NoCondition),
      Row(<<" ">>, K_note, T_number, <<>>, NoCondition),
      Row(<<>>, <<>>, <<>>, <<>>, NoCondition),
      Row(N_pay, K_a, <<>>, <<>>, JsonCondition(JInt(5))) }

LoaderInit ==
    /\ rules = {}
    /\ logs = {}
    /\ nextRuleId = 1
    /\ nextLogId = 1
    /\ now = 0
    /\ upl = [u \in Uploaders |-> IdleUpload]
    /\ uploads = 0
    /\ last = NoCall
    /\ vin \in {[NoValidation EXCEPT !.other = csv] : csv \in SeqsUpTo(LoaderRows, MaxRows)}
    /\ vout = NoResult
    /\ req = [w \in Workers |-> IdleRequest]

\* CSVParser.parse_csv_content is called on the drawn document.
ParseCsvContent ==
    /\ vout.called = "none"
    /\ vout' = [vout EXCEPT !.called = "parse_csv_content",
                            !.result = parse_csv_content(vin.other)]
    /\ UNCHANGED <<rules, logs, nextRuleId, nextLogId, now, upl, uploads, last, vin, req>>

\* parse_validation_rules is called on the drawn document.
ParseValidationRules ==
    /\ vout.called = "none"
    /\ vout' = [vout EXCEPT !.called = "parse_validation_rules",
                            !.result = parse_validation_rules(vin.other)]
    /\ UNCHANGED <<rules, logs, nextRuleId, nextLogId, now, upl, uploads, last, vin, req>>

LoaderSpec == LoaderInit /\ [][ParseCsvContent \/ ParseValidationRules]_vars

(***************************************************************************)
(* Properties                                                              *)
(***************************************************************************)
\* Two envelopes with the same event name and the same inner payload.
SameNameAndInner(p, q) ==
    /\ IsDict(p) /\ IsDict(q)
    /\ dict_has(p, K_eventName) /\ dict_has(q, K_eventName)
    /\ dict_has(p, K_payload) /\ dict_has(q, K_payload)
    /\ dict_get(p, K_eventName) = dict_get(q, K_eventName)
    /\ dict_get(p, K_payload) = dict_get(q, K_payload)

\* The records of an application with an event name and the content hash of
\* a stored payload.
RecordsWith(app_pk_, event_name, hash) ==
    {r \in logs : /\ r.app_id = app_pk_
                  /\ r.event_name = event_name
                  /\ compute_payload_hash(r.payload) = hash}

\* C1: after a process_log call that stored a record for an envelope, exactly
\* one record with that application, event name and content hash is stored,
\* and it is the record the call created.
C1_OneRecordPerContent ==
    (last.op = "process_log" /\ last.id # 0 /\ last.hash # EMPTY_HASH)
    => RecordsWith(get_by_app_id(last.app_id), last.event_name, last.hash)
          = {r \in logs : r.id = last.id}

\* C2: no two stored records of one application and event name differ only
\* in the metadata of their envelopes (same eventName, same inner payload).
C2_MetadataDoesNotDuplicate ==
    \A r1 \in logs, r2 \in logs :
        (/\ r1.app_id = r2.app_id
         /\ r1.event_name = r2.event_name
         /\ SameNameAndInner(r1.payload, r2.payload)
         /\ r1.payload # r2.payload)
        => r1.id = r2.id

\* C3: on either ingestion path, two envelopes with the same event name and
\* the same inner payload get the same content hash.
C3_HashOfNameAndInner ==
    (vout.called \in {"process_log", "process_event_async"}
        /\ SameNameAndInner(vin.payload, vin.other))
    => vout.hashes[1] = vout.hashes[2]

Hours == 0..(MaxTime + 1)
InWindow(app_pk_, hours) ==
    {r \in logs : r.app_id = app_pk_ /\ r.created_at >= now - hours}
NamesInWindow(app_pk_, hours) == {r.event_name : r \in InWindow(app_pk_, hours)}

\* C4: the total get_stats returns is the sum of its valid, invalid and error
\* counts and is the number of distinct event names with a record of the
\* application in the window.
C4_StatsTotal ==
    \A a \in AppIds, h \in Hours :
        LET st == get_stats(app_pk[a], h)
        IN  /\ st.total = st.valid + st.invalid + st.error
            /\ st.total = Cardinality(NamesInWindow(app_pk[a], h))

\* Two names in the wider window, one of them in the narrower one, a record
\* stored as valid that counts as invalid among them.
C4_Witness ==
    /\ get_stats(1, 0).total = 1
    /\ get_stats(1, MaxTime).total = 2
    /\ \E r \in InWindow(1, MaxTime) :
          r.validation_status = "valid" /\ r.validation_results # <<>>

\* The most recent record of a name in the window, and its class as the
\* statistics define it.
MostRecent(app_pk_, hours, n) ==
    CHOOSE r \in InWindow(app_pk_, hours) :
        /\ r.event_name = n
        /\ \A x \in InWindow(app_pk_, hours) :
              x.event_name = n =>
                 \/ x.created_at < r.created_at
                 \/ (x.created_at = r.created_at /\ x.id <= r.id)
ClassOf(r) ==
    IF r.validation_status = "error" THEN "error"
    ELSE IF \/ r.validation_status = "invalid"
            \/ \E i \in 1..Len(r.validation_results) :
                  verdict_status(r.validation_results[i]) # ST_VALID
    THEN "invalid"
    ELSE "valid"
NamesOfClass(app_pk_, hours, c) ==
    {n \in NamesInWindow(app_pk_, hours) : ClassOf(MostRecent(app_pk_, hours, n)) = c}

\* C5: get_stats counts each event name once, in the class of its most recent
\* record in the window.
C5_StatsByMostRecent ==
    \A a \in AppIds, h \in Hours :
        LET st == get_stats(app_pk[a], h)
        IN  /\ st.error = Cardinality(NamesOfClass(app_pk[a], h, "error"))
            /\ st.invalid = Cardinality(NamesOfClass(app_pk[a], h, "invalid"))
            /\ st.valid = Cardinality(NamesOfClass(app_pk[a], h, "valid"))

\* Two records of one name in the window whose classes differ.
C5_Witness ==
    \E r1 \in InWindow(1, MaxTime), r2 \in InWindow(1, MaxTime) :
        /\ r1.event_name = r2.event_name
        /\ r1.id < r2.id
        /\ ClassOf(r1) # ClassOf(r2)

\* The field name of a rule without a leading 'payload.'.
FieldPath(field_name) ==
    IF str_startswith(field_name, K_payload \o <<".">>)
    THEN SubSeq(field_name, Len(K_payload) + 2, Len(field_name))
    ELSE field_name
RequiredAndAbsent(rule, payload) ==
    /\ rule.is_required
    /\ \A i \in 1..Len(inner_payload_of(payload).v) :
          normalize_key(inner_payload_of(payload).v[i][1])
             # normalize_key(FieldPath(rule.field_name))

ArrayOf(rule, payload) ==
    LET arr == get_array_field_name(FieldPath(rule.field_name))
        key == find_key_case_insensitive(inner_payload_of(payload), arr[1])
    IN  IF arr[1] = None \/ key = None THEN <<>>
        ELSE LET val == dict_get(inner_payload_of(payload), key)
             IN  IF IsList(val) /\ \A i \in 1..Len(val.v) : IsDict(val.v[i])
                 THEN val.v ELSE <<>>
NotExtra(v) == v.validationStatus # ST_EXTRA_KEY

\* C7: for a single rule root[].sub and a non-empty list of n objects under
\* root, validate_event returns exactly n verdicts for the rule, the i-th
\* keyed root[i].sub.
C7_OneVerdictPerElement ==
    (vout.called = "validate_event" /\ Len(vin.rules) = 1
        /\ ArrayOf(vin.rules[1], vin.payload) # <<>>)
    => LET arr == get_array_field_name(FieldPath(vin.rules[1].field_name))
           verdicts == SelectSeq(vout.result.results, NotExtra)
       IN  /\ Len(verdicts) = Len(ArrayOf(vin.rules[1], vin.payload))
           /\ \A i \in 1..Len(verdicts) :
                 normalize_key(verdicts[i].key)
                    = normalize_key(arr[1] \o <<"[">> \o int_str(i - 1) \o <<"]",".">>
                                    \o arr[2])

\* An inner payload with a null or an empty or whitespace-only string.
HasEmptyValue(payload) ==
    \E i \in 1..Len(inner_payload_of(payload).v) :
        LET v == inner_payload_of(payload).v[i][2]
        IN  \/ v.t = "null"
            \/ (v.t = "str" /\ \A j \in 1..Len(v.v) : IsSpace(v.v[j]))
StoredBy(call) == {r \in logs : r.id = call.id}

\* C8: a process_log call for an event without rules takes the fallback and
\* stores a record that is never 'error', 'invalid' exactly when a value of
\* the inner payload is null or blank, and 'valid' otherwise.
C8_FallbackStatus ==
    [][\A c \in LogCalls :
          (/\ ProcessLog(c[1], c[2])
           /\ last'.id # 0
           /\ get_event_rules(c[1], last'.event_name) = <<>>)
          => /\ last'.path = "fallback"
             /\ \E r \in logs' :
                   /\ r.id = last'.id
                   /\ r.payload = dict_get_default(c[2], K_payload, JDict(<<>>))
                   /\ r.validation_status # "error"
                   /\ r.validation_status = "invalid" <=> HasEmptyValue(r.payload)
                   /\ r.validation_status = "valid" <=> ~HasEmptyValue(r.payload)]_vars

\* The fallback stored a record whose only empty value is a blank string.
C8_Witness ==
    /\ last.op = "process_log" /\ last.path = "fallback"
    /\ \E r \in StoredBy(last) :
          /\ r.validation_status = "invalid"
          /\ \E i \in 1..Len(inner_payload_of(r.payload).v) :
                inner_payload_of(r.payload).v[i][2] = JStr(<<" ">>)
          /\ \A i \in 1..Len(inner_payload_of(r.payload).v) :
                inner_payload_of(r.payload).v[i][2] \notin {JNull, JStr(<<>>)}

\* C9: an upload whose content yields no rule reports failure and leaves the
\* rules of every application as they were.
C9_NoRuleUploadChangesNothing ==
    [][\A u \in Uploaders, c \in UploadCalls :
          (/\ UploadDelete(u, c[1], c[2])
           /\ get_by_app_id(c[1]) # 0
           /\ parse_csv_content(c[2]) = <<>>)
          => (last'.outcome = "failure" /\ last'.error = NO_RULES /\ rules' = rules)]_vars

\* A no-rule upload has failed for an application while it and another one
\* have rules.
C9_Witness ==
    /\ last.op = "upload" /\ last.error = NO_RULES
    /\ \E r \in rules : r.app_id = get_by_app_id(last.app_id)
    /\ \E r \in rules : r.app_id # get_by_app_id(last.app_id)

\* C10: while a replacement of an application's schema is under way,
\* process_log takes the fallback for no event of the application that has
\* rules both in the replaced and in the replacing schema.
C10_ReplacementIsAtomic ==
    [][\A c \in LogCalls :
          (/\ ProcessLog(c[1], c[2])
           /\ last'.id # 0
           /\ \E u \in Uploaders :
                 /\ upl[u].pc = "insert"
                 /\ upl[u].app_id = c[1]
                 /\ \E r \in upl[u].old : r.event_name = last'.event_name
                 /\ \E i \in 1..Len(upl[u].new) :
                       upl[u].new[i].event_name = last'.event_name)
          => last'.path # "fallback"]_vars

\* A record validated against rules, stored as valid, all verdicts 'Valid'.
FullyValid(r) ==
    /\ \A i \in 1..Len(r.validation_results) :
          verdict_status(r.validation_results[i])
              \notin {ST_EXTRA_EVENT, ST_EXTRA_PAYLOAD}
    /\ r.validation_status = "valid"
    /\ \A i \in 1..Len(r.validation_results) :
          verdict_status(r.validation_results[i]) = ST_VALID

\* C11: get_fully_valid_events returns a name only if the most recent record
\* of the name in the window was validated against rules, is stored as valid
\* and has no verdict other than 'Valid'.
C11_FullyValidByMostRecent ==
    \A a \in AppIds, h \in Hours :
        \A n \in get_fully_valid_events(app_pk[a], h) :
            /\ n \in NamesInWindow(app_pk[a], h)
            /\ FullyValid(MostRecent(app_pk[a], h, n))

\* C12: process_log for an identifier that matches no application reports
\* failure with 'App not found', takes no validation path and leaves the
\* event store as it was.
C12_UnknownAppShortCircuits ==
    [][\A c \in LogCalls :
          (ProcessLog(c[1], c[2]) /\ c[1] \notin AppIds)
          => /\ last'.outcome = "failure"
             /\ last'.error = "App not found"
             /\ last'.path = "none"
             /\ last'.id = 0
             /\ logs' = logs
             /\ nextLogId' = nextLogId]_vars

\* The call failed for an unknown application while records are stored.
C12_Witness ==
    /\ last.op = "process_log"
    /\ last.app_id \notin AppIds
    /\ last.error = "App not found"
    /\ logs # {}

\* C13: every process_log call for an existing application and a non-empty
\* event name reports success and stores exactly one new record; when the
\* validator raised, the record has the status 'error' and one verdict, the
\* message.
C13_AlwaysOneRecordAndSuccess ==
    [][\A c \in LogCalls :
          (/\ ProcessLog(c[1], c[2])
           /\ c[1] \in AppIds
           /\ truthy(extract_event_name(c[2])))
          => /\ last'.outcome = "success"
             /\ Cardinality(logs' \ logs) = 1
             /\ \A r \in logs' \ logs :
                   /\ r.id = last'.id
                   /\ last'.path = "error" =>
                         /\ r.validation_status = "error"
                         /\ Len(r.validation_results) = 1
                         /\ DOMAIN r.validation_results[1] = {"error"}]_vars

\* The process_log requests of the workers that created a record.
Inserted == {w \in Workers : req[w].op = "process_log" /\ req[w].id # 0}
SameContent(w1, w2) ==
    /\ req[w1].app_id = req[w2].app_id
    /\ req[w1].event_name = req[w2].event_name
    /\ compute_payload_hash(req[w1].payload) = compute_payload_hash(req[w2].payload)
AllDone == \A w \in Workers : req[w].pc = "done"

Executions == {w \in Workers : req[w].op = "process_event_async" /\ req[w].app_id \in AppIds}
LogsOf(app_pk_, event_name) ==
    {r \in logs : r.app_id = app_pk_ /\ r.event_name = event_name}

\* C15: once executions of process_event_async for one application and event
\* name have all ended, whatever the interleaving of their insert and delete
\* steps, exactly one record of that application and event name is stored,
\* the one inserted last; records of other names and applications are left.
C15_OneRecordPerName ==
    (AllDone /\ Executions = Workers)
    => \A w \in Executions :
          /\ Cardinality(LogsOf(app_pk[req[w].app_id], req[w].event_name)) = 1
          /\ \A r \in LogsOf(app_pk[req[w].app_id], req[w].event_name) :
                \A w2 \in Executions :
                    (req[w2].app_id = req[w].app_id /\ req[w2].event_name = req[w].event_name)
                    => req[w2].id <= r.id

\* C16: the prune step of process_log removes only records of the
\* application, event name and content hash of the record just inserted, and
\* never that record; every other record stays as it was, so records of one
\* event name with different payloads are stored side by side.
C16_PruneIsScopedByContent ==
    [][\A c \in LogCalls :
          (ProcessLog(c[1], c[2]) /\ nextLogId' # nextLogId)
          => /\ \E n \in logs' : n.id = nextLogId
             /\ \A r \in logs : \A n \in logs' :
                   (n.id = nextLogId /\ r \notin logs')
                   => /\ r.app_id = n.app_id
                      /\ r.event_name = n.event_name
                      /\ compute_payload_hash(r.payload) = compute_payload_hash(n.payload)
                      /\ r.id # n.id]_vars

\* Two payload variants of one event name are stored after the prune step of
\* the second one has run.
C16_Witness ==
    /\ last.op = "process_log" /\ last.id = 2
    /\ \E r1, r2 \in logs :
          /\ r1.id = 1 /\ r2.id = 2
          /\ r1.app_id = r2.app_id /\ r1.event_name = r2.event_name
          /\ compute_payload_hash(r1.payload) # compute_payload_hash(r2.payload)
          /\ compute_payload_hash(r2.payload) # EMPTY_HASH

\* A rule that names no list, and the value the inner payload holds under
\* the key of the rule.
IsPlainRule(rule) == get_array_field_name(FieldPath(rule.field_name))[1] = None
IsEmptyValue(v) ==
    \/ v.t = "null"
    \/ (v.t = "str" /\ \A j \in 1..Len(v.v) : IsSpace(v.v[j]))
PresentAndEmpty(rule, payload) ==
    /\ IsPlainRule(rule)
    /\ \E i \in 1..Len(inner_payload_of(payload).v) :
          /\ normalize_key(inner_payload_of(payload).v[i][1])
                = normalize_key(FieldPath(rule.field_name))
          /\ IsEmptyValue(inner_payload_of(payload).v[i][2])

\* C17: for a rule that names no list, required or optional, whose key is in
\* the inner payload with a null, an empty string or a whitespace-only
\* string, validate_event returns a verdict 'Payload value is Empty' for the
\* rule and the overall status 'invalid'.
C17_EmptyValueReported ==
    vout.called = "validate_event" =>
        \A i \in 1..Len(vin.rules) :
            PresentAndEmpty(vin.rules[i], vin.payload) =>
                /\ vout.result.status = "invalid"
                /\ \E j \in 1..Len(vout.result.results) :
                      /\ vout.result.results[j].key = FieldPath(vin.rules[i].field_name)
                      /\ vout.result.results[j].validationStatus = ST_EMPTY

\* The condition of a rule, its trigger in the inner payload, and the value
\* under then_field.
HasCondition(rule) == IsDict(rule.condition) /\ rule.condition.v # <<>>
Triggered(rule, payload) ==
    LET inner == inner_payload_of(payload)
        if_field == dict_get(rule.condition, K_if_field).v
    IN  /\ dict_has(inner, if_field)
        /\ py_eq(dict_get(inner, if_field), dict_get(rule.condition, K_if_value))
ThenFieldFails(rule, payload) ==
    LET inner == inner_payload_of(payload)
        then_field == dict_get(rule.condition, K_then_field).v
        then_type == dict_get(rule.condition, K_then_type).v
    IN  \/ ~dict_has(inner, then_field)
        \/ dict_get(inner, then_field).t = "null"
        \/ dict_get(inner, then_field) = JStr(<<>>)
        \/ validate_value(dict_get(inner, then_field), then_type, None) = "False"
ConditionalVerdicts(rule) ==
    {j \in 1..Len(vout.result.results) :
        /\ vout.result.results[j].key = FieldPath(rule.field_name)
        /\ vout.result.results[j].receivedType = "invalid"}

\* C18: for a rule with a condition, when the inner payload has if_field
\* equal to if_value and then_field is absent, null, empty or not of
\* then_type, validate_event returns a verdict of the conditional violation
\* and the overall status 'invalid'; when the trigger does not match, the
\* condition gives no verdict.
C18_ConditionalViolation ==
    vout.called = "validate_event" =>
        \A i \in 1..Len(vin.rules) :
            HasCondition(vin.rules[i]) =>
                IF Triggered(vin.rules[i], vin.payload)
                THEN ThenFieldFails(vin.rules[i], vin.payload) =>
                        /\ ConditionalVerdicts(vin.rules[i]) # {}
                        /\ vout.result.status = "invalid"
                ELSE ConditionalVerdicts(vin.rules[i]) = {}

\* A rule a.b that names no list, and the only rule of the list with its
\* field name; the nested value is in the inner payload with the type the
\* rule expects.
IsDottedRule(rule) ==
    /\ IsPlainRule(rule)
    /\ Len(str_split_dot(FieldPath(rule.field_name))) > 1
NestedAndTyped(rule, payload) ==
    LET value == get_value_by_path(inner_payload_of(payload), FieldPath(rule.field_name))
    IN  /\ IsDottedRule(rule)
        /\ value # JNull
        /\ validate_value(value, rule.data_type, None) = "True"
VerdictsOf(rule, status) ==
    {j \in 1..Len(vout.result.results) :
        /\ vout.result.results[j].key = FieldPath(rule.field_name)
        /\ vout.result.results[j].validationStatus = status}

\* C19: for a rule a.b that names no list, required or optional, whose
\* nested value is in the inner payload and of the expected type,
\* validate_event returns exactly one verdict 'Valid' for the rule and no
\* verdict 'Payload not present in the log'; when it is the only rule the
\* overall status is 'valid'.
C19_DottedRuleValid ==
    vout.called = "validate_event" =>
        \A i \in 1..Len(vin.rules) :
            (/\ NestedAndTyped(vin.rules[i], vin.payload)
             /\ \A k \in 1..Len(vin.rules) :
                   vin.rules[k].field_name = vin.rules[i].field_name => k = i)
            => /\ ~vout.result.raised
               /\ Cardinality(VerdictsOf(vin.rules[i], ST_VALID)) = 1
               /\ VerdictsOf(vin.rules[i], ST_NOT_PRESENT) = {}
               /\ Len(vin.rules) = 1 => vout.result.status = "valid"

\* The inner keys, and those the rules account for.
InnerKeys(payload) ==
    {inner_payload_of(payload).v[i][1] : i \in 1..Len(inner_payload_of(payload).v)}
IsExpected(key, rule_list) ==
    \E i \in 1..Len(rule_list) :
        \/ normalize_key(key) = normalize_key(FieldPath(rule_list[i].field_name))
        \/ /\ ~IsPlainRule(rule_list[i])
           /\ normalize_key(key)
                 = normalize_key(get_array_field_name(FieldPath(rule_list[i].field_name))[1])
ExtraVerdicts(key) ==
    {j \in 1..Len(vout.result.results) :
        /\ vout.result.results[j].key = key
        /\ vout.result.results[j].validationStatus = ST_EXTRA_KEY}

\* C20: an inner key gets a verdict 'Extra key present in the log' exactly
\* when its normalized name is the normalized field name of no rule and it
\* is not the root of a rule root[].sub; such a key is reported once, a key
\* of the envelope is never reported, and verdicts of extra keys alone never
\* make the overall status 'invalid'.
C20_ExtraKeys ==
    (vout.called = "validate_event" /\ ~vout.result.raised) =>
        /\ \A key \in InnerKeys(vin.payload) :
              Cardinality(ExtraVerdicts(key))
                 = IF IsExpected(key, vin.rules) THEN 0 ELSE 1
        /\ \A j \in 1..Len(vout.result.results) :
              vout.result.results[j].validationStatus = ST_EXTRA_KEY
              => vout.result.results[j].key \in InnerKeys(vin.payload)
        /\ (\A j \in 1..Len(vout.result.results) :
                vout.result.results[j].validationStatus \in {ST_EXTRA_KEY, ST_VALID})
           => vout.result.status = "valid"

\* The statuses a verdict may carry.
VerdictStatuses ==
    {ST_VALID, ST_NOT_PRESENT, ST_EMPTY, ST_INVALID, ST_EXTRA_KEY, ST_EXTRA_EVENT,
     ST_EXTRA_PAYLOAD}

\* C21: every verdict stored on a record by process_log, whatever the rules
\* and the payload, has a status of the fixed set of seven statuses.
C21_VerdictStatusInSet ==
    \A r \in logs :
        \A i \in 1..Len(r.validation_results) :
            /\ "validationStatus" \in DOMAIN r.validation_results[i]
            /\ r.validation_results[i].validationStatus \in VerdictStatuses

\* The event name in force at row i of a document, and the rows that give a
\* rule.
Loaded == vout.called \in {"parse_csv_content", "parse_validation_rules"}
NamedUpTo(rows, i) == {j \in 1..i : str_strip(rows[j].eventName) # <<>>}
CurrentEvent(rows, i) ==
    IF NamedUpTo(rows, i) = {} THEN None
    ELSE str_strip(rows[CHOOSE j \in NamedUpTo(rows, i) :
                            \A k \in NamedUpTo(rows, i) : k <= j].eventName)
RuleRows(rows) ==
    {i \in 1..Len(rows) : /\ CurrentEvent(rows, i) # None
                          /\ str_strip(rows[i].eventPayload) # <<>>}
NthRuleRow(rows, n) ==
    CHOOSE i \in RuleRows(rows) : Cardinality({j \in RuleRows(rows) : j < i}) = n - 1

\* C22: the rule loaders read the rows in order; a row with an event name
\* sets the current event, also when the row has no field path and gives no
\* rule; a row without event name gets the last event name seen; a row
\* before any event name or without field path gives no rule; the rules
\* come out in the order of the rows.
C22_CarryForward ==
    Loaded =>
        /\ Len(vout.result) = Cardinality(RuleRows(vin.other))
        /\ \A n \in 1..Len(vout.result) :
              /\ vout.result[n].field_name
                    = str_strip(vin.other[NthRuleRow(vin.other, n)].eventPayload)
              /\ str_lower(vout.result[n].event_name)
                    = str_lower(CurrentEvent(vin.other, NthRuleRow(vin.other, n)))

\* A row names an event and has no field path, and the next row, without
\* event name, gives a rule of that event.
C22_Witness ==
    /\ vout.called = "parse_csv_content"
    /\ Len(vin.other) = 3
    /\ vin.other[2].eventName = N_logout /\ str_strip(vin.other[2].eventPayload) = <<>>
    /\ vin.other[3].eventName = <<>>
    /\ Len(vout.result) = 2
    /\ vout.result[2].event_name = N_logout
    /\ vout.result[1].event_name # N_logout

\* C23: every rule the rule loader gives and upload_validation_rules stores
\* has an expected type among text, date, integer, float and boolean.
C23_StoredTypeIsKnown ==
    \A r \in rules : r.data_type \in valid_types

\* The event names of the rules of an application, and those of its records.
RuleNames(a) == {r.event_name : r \in {x \in rules : x.app_id = app_pk[a]}}
IsCaptured(a, n) == \E l \in logs : l.app_id = app_pk[a] /\ l.event_name = n

\* C24: the coverage query returns as captured the number of event names of
\* the rules that have a stored record, as missing the number of those that
\* have none and as total the number of event names of the rules, so that
\* captured + missing = total; an event name with records and without rules
\* is counted in none of the three.
C24_Coverage ==
    \A a \in AppIds :
        /\ get_coverage(a).captured = Cardinality({n \in RuleNames(a) : IsCaptured(a, n)})
        /\ get_coverage(a).missing = Cardinality({n \in RuleNames(a) : ~IsCaptured(a, n)})
        /\ get_coverage(a).total = Cardinality(RuleNames(a))
        /\ get_coverage(a).captured + get_coverage(a).missing = get_coverage(a).total

\* An application has a captured event name of its rules, and a captured
\* event name that is in no rule.
C24_Witness ==
    \E a \in AppIds :
        /\ get_coverage(a).captured = 1
        /\ \E l \in logs : l.app_id = app_pk[a] /\ l.event_name \notin RuleNames(a)

\* No process_log request is between its insert and the end of its prune.
Quiescent == \A w \in Workers : req[w].pc \notin {"hash", "prune"}

\* C25: whatever the interleaving of the insert, hash and prune steps of
\* concurrent process_log requests, in every state in which no request is
\* between its insert and the end of its prune the store holds at most one
\* record per application, event name and content hash.
C25_AtMostOnePerContent ==
    Quiescent =>
        \A r1, r2 \in logs :
            (/\ r1.app_id = r2.app_id
             /\ r1.event_name = r2.event_name
             /\ compute_payload_hash(r1.payload) = compute_payload_hash(r2.payload)
             /\ compute_payload_hash(r1.payload) # EMPTY_HASH)
            => r1 = r2

\* The rules stored for an application without their primary keys, and the
\* rules one upload gives.
RuleData(r) ==
    [event_name |-> r.event_name, field_name |-> r.field_name,
     data_type |-> r.data_type, is_required |-> r.is_required,
     condition |-> r.condition]
RulesOf(a) == {r \in rules : r.app_id = app_pk[a]}
IsOneUpload(a, csv_content) ==
    /\ Cardinality(RulesOf(a)) = Len(parse_csv_content(csv_content))
    /\ {RuleData(r) : r \in RulesOf(a)}
          = {parse_csv_content(csv_content)[i] : i \in 1..Len(parse_csv_content(csv_content))}
NoUploadRunning == \A u \in DOMAIN upl : upl[u].pc = "idle"

\* C26: once successful uploads for one application have ended, in sequence
\* or with their delete and insert steps interleaved, the rules stored for
\* the application are the rules of one single upload, never those of two.
C26_FullReplace ==
    NoUploadRunning =>
        \A a \in AppIds :
            RulesOf(a) # {} => \E c \in UploadCalls : c[1] = a /\ IsOneUpload(a, c[2])

\* C27: when upload_validation_rules returns success False, for an unknown
\* application, for a document without rules or for a failure while the new
\* rules are inserted, the rules stored before the call are still stored:
\* a call that fails before its delete changes no rule, and a call that
\* fails in its insert has lost none of the rules it deleted.
C27_FailedUploadKeepsRules ==
    [][/\ \A u \in DOMAIN upl, c \in UploadCalls :
             (UploadDelete(u, c[1], c[2]) /\ last'.outcome = "failure" /\ last' # last)
             => rules' = rules
       /\ \A u \in DOMAIN upl :
             UploadInsertFails(u)
             => /\ last'.outcome = "failure"
                /\ upl[u].old \subseteq rules']_vars

\* The records of an application by event name, the one ingested last being
\* the one with the greatest primary key.
NamesOf(a) == {r.event_name : r \in {x \in logs : x.app_id = app_pk[a]}}
LastIngested(a, n) ==
    CHOOSE r \in logs :
        /\ r.app_id = app_pk[a] /\ r.event_name = n
        /\ \A x \in logs : (x.app_id = app_pk[a] /\ x.event_name = n) => x.id <= r.id
OnlyValidVerdicts(r) ==
    /\ r.validation_status = "valid"
    /\ \A i \in 1..Len(r.validation_results) :
          verdict_status(r.validation_results[i]) = ST_VALID
RecoveredNames(a) == {n \in NamesOf(a) : OnlyValidVerdicts(LastIngested(a, n))}
BrokenNames(a) == {n \in NamesOf(a) : LastIngested(a, n).validation_status = "invalid"}

\* C28: after any sequence of process_log calls for an application,
\* get_stats over a window that covers them counts each event name by the
\* record ingested last: valid when that record is valid with only 'Valid'
\* verdicts, whatever the earlier records were, and invalid when that record
\* is invalid, also when an earlier record of the name, still stored, was
\* valid.
C28_LatestInstanceDecides ==
    \A a \in AppIds :
        /\ get_stats(app_pk[a], MaxTime).total = Cardinality(NamesOf(a))
        /\ get_stats(app_pk[a], MaxTime).valid = Cardinality(RecoveredNames(a))
        /\ get_stats(app_pk[a], MaxTime).invalid >= Cardinality(BrokenNames(a))
        /\ get_stats(app_pk[a], MaxTime).invalid + get_stats(app_pk[a], MaxTime).error
              = Cardinality(NamesOf(a) \ RecoveredNames(a))

\* An event name whose earlier record is invalid and whose last record is
\* valid with only 'Valid' verdicts, both stored.
C28_Witness ==
    \E a \in AppIds : \E n \in RecoveredNames(a) :
        /\ get_stats(app_pk[a], MaxTime).valid = 1
        /\ \E r \in logs :
              /\ r.app_id = app_pk[a] /\ r.event_name = n
              /\ r.id < LastIngested(a, n).id
              /\ r.validation_status = "invalid"
              /\ LastIngested(a, n).validation_results # <<>>

C30_FieldPathUnique ==
    \A r1 \in rules, r2 \in rules :
        (/\ r1.id # r2.id
         /\ r1.app_id = r2.app_id
         /\ r1.event_name = r2.event_name)
        => normalize_key(r1.field_name) # normalize_key(r2.field_name)
====
